---- MODULE Spec2Model ----
(***************************************************************************)
(* A model of the e-mail dispatch core of Naradh: the provider registry    *)
(* (EmailServiceFactory), the providers' send path (ResendProvider,        *)
(* NodemailerProvider, TemplateService.render), EmailService.sendEmail and *)
(* sendBatchEmails, and of FeedbackService on its feedbacks collection:    *)
(* submitFeedback, updateFeedbackStatus and getAnalytics.                  *)
(*                                                                         *)
(* Strings are sequences of one-character strings, so that toLowerCase,    *)
(* trim and the e-mail regular expression are computed character by        *)
(* character.  An error message is the sequence of its segments, outermost *)
(* wrapper first (the code builds `${wrapper}: ${inner message}`).         *)
(***************************************************************************)
EXTENDS Integers, Sequences, FiniteSets, TLC

\* ------------------------------------------------------------------ bounds
\* Longest payload list handed to sendBatchEmails.
MaxPayloads == 3
\* Largest explicit maxConcurrency option.
MaxConcurrency == 2
\* Number of factory operations (register, setConfig, unregister, create) in a run.
MaxOps == 3
\* Number of submitFeedback and updateFeedbackStatus calls in a workflow.
MaxCalls == 2
\* Most records in the collection getAnalytics reads.
MaxRecords == 3
\* Most chunks of a chunkArray loop that are recorded; more than MaxPayloads.
MaxChunks == 5

\* --------------------------------------------------------------- strings
\* The value of an absent field (JavaScript undefined).
Undefined == <<"<undefined>">>

UpperChars == <<"A","B","C","D","E","F","G","H","I","J","K","L","M",
                "N","O","P","Q","R","S","T","U","V","W","X","Y","Z">>
LowerChars == <<"a","b","c","d","e","f","g","h","i","j","k","l","m",
                "n","o","p","q","r","s","t","u","v","w","x","y","z">>

LowerChar(c) ==
  IF \E i \in 1..Len(UpperChars) : UpperChars[i] = c
    THEN LowerChars[CHOOSE i \in 1..Len(UpperChars) : UpperChars[i] = c]
    ELSE c

\* String.prototype.toLowerCase
ToLowerCase(s) == [i \in 1..Len(s) |-> LowerChar(s[i])]

IsSpace(c) == c = " "

RECURSIVE TrimStart(_)
TrimStart(s) ==
  IF s # <<>> /\ IsSpace(Head(s)) THEN TrimStart(Tail(s)) ELSE s

RECURSIVE TrimEnd(_)
TrimEnd(s) ==
  IF s # <<>> /\ IsSpace(s[Len(s)]) THEN TrimEnd(SubSeq(s, 1, Len(s) - 1)) ELSE s

\* String.prototype.trim
Trim(s) == TrimEnd(TrimStart(s))

\* JavaScript truthiness of an optional string: !x holds of undefined and of ''.
Truthy(s) == s # Undefined /\ s # <<>>

\* /^[^\s@]+@[^\s@]+\.[^\s@]+$/ : no white space, exactly one '@' with a
\* non-empty local part, and a '.' after it with a character on both sides.
IsValidEmail(s) ==
  /\ s # Undefined
  /\ \A i \in 1..Len(s) : ~IsSpace(s[i])
  /\ Cardinality({i \in 1..Len(s) : s[i] = "@"}) = 1
  /\ \E a \in 2..Len(s) :
       /\ s[a] = "@"
       /\ \E d \in (a + 2)..(Len(s) - 1) : s[d] = "."

\* ----------------------------------------------------------- vendor names
resend == <<"r","e","s","e","n","d">>
Resend == <<"R","e","s","e","n","d">>
nodemailer == <<"n","o","d","e","m","a","i","l","e","r">>
sendgrid == <<"s","e","n","d","g","r","i","d">>
SendGrid == <<"S","e","n","d","G","r","i","d">>

\* Names handed to the factory's operations.
VendorNames == {resend, Resend, nodemailer, sendgrid, SendGrid}

ProviderClasses == {"ResendProvider", "NodemailerProvider"}

\* Provider configurations: which keys are present (config.apiKey, config.fromEmail)
\* and which Nodemailer transport key (smtp, service, sendmail) is given.
ResendConfig == [apiKey |-> TRUE, fromEmail |-> TRUE, transport |-> "none", cacheTemplates |-> TRUE]
SmtpConfig == [apiKey |-> FALSE, fromEmail |-> TRUE, transport |-> "smtp", cacheTemplates |-> TRUE]
NoSenderConfig == [apiKey |-> TRUE, fromEmail |-> FALSE, transport |-> "smtp", cacheTemplates |-> FALSE]

ProviderConfigs == {ResendConfig, SmtpConfig, NoSenderConfig}

\* --------------------------------------------------------------- payloads
ana == <<"a","@","b",".","c">>
noDomain == <<"a","@","b">>
welcomeHbs == <<"w",".","h","b","s">>
missingHbs == <<"m",".","h","b","s">>
brokenHbs == <<"b",".","h","b","s">>
confirmationHbs == <<"f","c",".","h","b","s">>
notificationHbs == <<"f","n",".","h","b","s">>
hello == <<"H","i">>
blank == <<" ">>

\* The template files on disk: path -> whether Handlebars compiles and renders it.
TemplateFiles ==
  (welcomeHbs :> TRUE) @@ (brokenHbs :> FALSE)
  @@ (confirmationHbs :> TRUE) @@ (notificationHbs :> TRUE)

Payload(to, subject, templatePath, vendor) ==
  [to |-> to, subject |-> subject, templatePath |-> templatePath, vendor |-> vendor]

goodPayload == Payload(ana, hello, welcomeHbs, Resend)
noSubjectPayload == Payload(ana, <<>>, welcomeHbs, resend)
noTemplatePayload == Payload(ana, hello, missingHbs, nodemailer)

\* Payloads of the batches.
BatchPayloads == {goodPayload, noSubjectPayload, noTemplatePayload}

\* Payloads of the single sendEmail calls: every field valid, missing, empty or blank.
SendPayloads ==
  {Payload(t, s, tp, v) :
     t \in {ana}, s \in {hello}, tp \in {welcomeHbs, missingHbs, brokenHbs},
     v \in {resend, Resend, nodemailer, SendGrid}}
  \cup {Payload(t, hello, welcomeHbs, resend) : t \in {Undefined, <<>>, noDomain}}
  \cup {Payload(ana, s, welcomeHbs, resend) : s \in {Undefined, <<>>, blank}}
  \cup {Payload(ana, hello, tp, nodemailer) : tp \in {Undefined, <<>>, blank}}
  \cup {Payload(ana, hello, welcomeHbs, v) : v \in {Undefined, <<>>, blank}}

\* ------------------------------------------------------------------ state
VARIABLES
  providers,   \* EmailServiceFactory.providers: vendor key -> provider class
  configs,     \* EmailServiceFactory.configs: vendor key -> configuration
  lastOp,      \* the last factory operation called and what it returned
  nOps,        \* factory operations called so far
  payloads,    \* the payload list of the running sendEmail / sendBatchEmails call
  opts,        \* sendBatchEmails' locals parallel, continueOnError, maxConcurrency
  chunks,      \* sendBatchEmails' local chunks, as positions in payloads
  calls,       \* one record per payload: the progress of its sendEmail call
  results,     \* sendBatchEmails' local results
  batch,       \* where sendBatchEmails is, and what it returned or threw
  test,        \* the running testConfiguration call and what it returned
  isConnected, \* FeedbackService.isConnected
  store,       \* the feedbacks collection: _id -> stored document
  sub,         \* the running submitFeedback call, its locals and its response
  upd,         \* the running status update, its locals and its outcome
  analytics,   \* the running getAnalytics call and what it returned or threw
  now          \* the clock read by Date.now() and new Date()

vars ==
  <<providers, configs, lastOp, nOps, payloads, opts, chunks, calls, results, batch,
    test, isConnected, store, sub, upd, analytics, now>>
factoryVars == <<providers, configs>>
callVars == <<payloads, opts, chunks, calls, results, batch>>
feedbackVars == <<isConnected, store, sub, upd, analytics, now>>

NoError == <<>>
\* The configuration of no provider: no key present.
NoConfig == [apiKey |-> FALSE, fromEmail |-> FALSE, transport |-> "none", cacheTemplates |-> FALSE]
NoInstance ==
  [class |-> "none", config |-> NoConfig, cacheEnabled |-> FALSE, templateCache |-> {}]

\* ---------------------------------------------------------------- factory
\* EmailServiceFactory.isProviderRegistered
IsProviderRegistered(vendor) == ToLowerCase(vendor) \in DOMAIN providers

\* The map Map.set(key, value) leaves.
MapSet(map, key, value) ==
  [k \in DOMAIN map \cup {key} |-> IF k = key THEN value ELSE map[k]]

\* The map Map.delete(key) leaves.
MapDelete(map, key) == [k \in DOMAIN map \ {key} |-> map[k]]

\* new ResendProvider(config)
NewResendProvider(config) ==
  IF ~config.apiKey
    THEN [ok |-> FALSE, error |-> <<"Resend API key is required">>, instance |-> NoInstance]
  ELSE IF ~config.fromEmail
    THEN [ok |-> FALSE, error |-> <<"From email address is required">>, instance |-> NoInstance]
  ELSE [ok |-> TRUE, error |-> NoError,
        instance |-> [class |-> "ResendProvider", config |-> config,
                      cacheEnabled |-> config.cacheTemplates, templateCache |-> {}]]

\* new NodemailerProvider(config), createTransporter included
NewNodemailerProvider(config) ==
  IF ~config.fromEmail
    THEN [ok |-> FALSE, error |-> <<"From email address is required">>, instance |-> NoInstance]
  ELSE IF config.transport \notin {"smtp", "service", "sendmail"}
    THEN [ok |-> FALSE, error |-> <<"Invalid Nodemailer configuration">>, instance |-> NoInstance]
  ELSE [ok |-> TRUE, error |-> NoError,
        instance |-> [class |-> "NodemailerProvider", config |-> config,
                      cacheEnabled |-> config.cacheTemplates, templateCache |-> {}]]

\* new ProviderClass(config)
Construct(class, config) ==
  IF class = "ResendProvider" THEN NewResendProvider(config) ELSE NewNodemailerProvider(config)

\* createProvider looking for the configuration before the registration.
CreateProviderConfigFirst(vendor) ==
  LET vendorKey == ToLowerCase(vendor) IN
  IF vendorKey \notin DOMAIN configs
    THEN [ok |-> FALSE, error |-> <<"Configuration not found for provider">>, instance |-> NoInstance]
  ELSE IF vendorKey \notin DOMAIN providers
    THEN [ok |-> FALSE, error |-> <<"Unsupported email provider">>, instance |-> NoInstance]
  ELSE Construct(providers[vendorKey], configs[vendorKey])

\* EmailServiceFactory.createProvider: what it returns or throws.
CreateProvider(vendor) ==
  LET vendorKey == ToLowerCase(vendor) IN
  IF vendorKey \notin DOMAIN providers
    THEN [ok |-> FALSE, error |-> <<"Unsupported email provider">>, instance |-> NoInstance]
  ELSE IF vendorKey \notin DOMAIN configs
    THEN [ok |-> FALSE, error |-> <<"Configuration not found for provider">>, instance |-> NoInstance]
  ELSE Construct(providers[vendorKey], configs[vendorKey])

NoResult == [ok |-> FALSE, error |-> NoError, instance |-> NoInstance]

\* registerProvider storing the vendor name as given, not lower-cased.
RegisterProviderAsGiven(vendor, class) ==
  /\ nOps < MaxOps
  /\ providers' = MapSet(providers, vendor, class)
  /\ lastOp' = [op |-> "registerProvider", vendor |-> vendor, result |-> NoResult]
  /\ nOps' = nOps + 1
  /\ UNCHANGED <<configs, callVars, test, feedbackVars>>

\* EmailServiceFactory.registerProvider
RegisterProvider(vendor, class) ==
  /\ nOps < MaxOps
  /\ providers' = MapSet(providers, ToLowerCase(vendor), class)
  /\ lastOp' = [op |-> "registerProvider", vendor |-> vendor, result |-> NoResult]
  /\ nOps' = nOps + 1
  /\ UNCHANGED <<configs, callVars, test, feedbackVars>>

\* EmailServiceFactory.setProviderConfig
SetProviderConfig(vendor, config) ==
  /\ nOps < MaxOps
  /\ configs' = MapSet(configs, ToLowerCase(vendor), config)
  /\ lastOp' = [op |-> "setProviderConfig", vendor |-> vendor, result |-> NoResult]
  /\ nOps' = nOps + 1
  /\ UNCHANGED <<providers, callVars, test, feedbackVars>>

\* EmailServiceFactory.unregisterProvider
UnregisterProvider(vendor) ==
  /\ nOps < MaxOps
  /\ providers' = MapDelete(providers, ToLowerCase(vendor))
  /\ configs' = MapDelete(configs, ToLowerCase(vendor))
  /\ lastOp' = [op |-> "unregisterProvider", vendor |-> vendor, result |-> NoResult]
  /\ nOps' = nOps + 1
  /\ UNCHANGED <<callVars, test, feedbackVars>>

\* A call of EmailServiceFactory.createProvider, its outcome kept in lastOp.
CreateProviderCall(vendor) ==
  /\ nOps < MaxOps
  /\ lastOp' = [op |-> "createProvider", vendor |-> vendor, result |-> CreateProvider(vendor)]
  /\ nOps' = nOps + 1
  /\ UNCHANGED <<factoryVars, callVars, test, feedbackVars>>

\* ---------------------------------------------------- testConfiguration
\* No testConfiguration call has been made.
NoTest == [pc |-> "idle", vendor |-> <<>>, verify |-> "none", result |-> FALSE]

\* 'verifyConnection' in provider: NodemailerProvider defines the method,
\* ResendProvider does not.
HasVerifyConnection(class) == class = "NodemailerProvider"

\* testConfiguration without its try/catch: the error of createProvider escapes.
TestConfigurationStartUncaught(vendor) ==
  LET created == CreateProvider(vendor) IN
  IF ~created.ok
    THEN [pc |-> "thrown", vendor |-> vendor, verify |-> "none", result |-> FALSE]
  ELSE IF HasVerifyConnection(created.instance.class)
    THEN [pc |-> "verifying", vendor |-> vendor, verify |-> "none", result |-> FALSE]
  ELSE [pc |-> "returned", vendor |-> vendor, verify |-> "none", result |-> TRUE]

\* The synchronous part of testConfiguration(vendor): createProvider inside the
\* try, then the call of verifyConnection when the provider has one.
TestConfigurationStart(vendor) ==
  LET created == CreateProvider(vendor) IN
  IF ~created.ok
    THEN [pc |-> "returned", vendor |-> vendor, verify |-> "none", result |-> FALSE]
  ELSE IF HasVerifyConnection(created.instance.class)
    THEN [pc |-> "verifying", vendor |-> vendor, verify |-> "none", result |-> FALSE]
  ELSE [pc |-> "returned", vendor |-> vendor, verify |-> "none", result |-> TRUE]

\* A call of EmailService.testConfiguration(vendor), up to its first await.
TestConfigurationCall(vendor) ==
  /\ nOps < MaxOps
  /\ test.pc # "verifying"
  /\ test' = TestConfigurationStart(vendor)
  /\ lastOp' = [op |-> "testConfiguration", vendor |-> vendor, result |-> NoResult]
  /\ nOps' = nOps + 1
  /\ UNCHANGED <<factoryVars, callVars, feedbackVars>>

\* What transporter.verify() can do.
VerifyOutcomes == {"verified", "throws"}

\* NodemailerProvider.verifyConnection settles: true when transporter.verify()
\* resolved, false from its catch clause; testConfiguration returns that value.
VerifyConnectionDone(outcome) ==
  /\ test.pc = "verifying"
  /\ outcome \in VerifyOutcomes
  /\ test' = [test EXCEPT !.pc = "returned", !.verify = outcome,
                          !.result = (outcome = "verified")]
  /\ UNCHANGED <<factoryVars, lastOp, nOps, callVars, feedbackVars>>

\* ------------------------------------------------------------ sendEmail
\* validatePayload without its subject check.
ValidatePayloadNoSubject(payload) ==
  IF ~Truthy(payload.to) \/ ~IsValidEmail(payload.to)
    THEN <<"Invalid or missing recipient email address">>
  ELSE IF ~Truthy(payload.templatePath) \/ Trim(payload.templatePath) = <<>>
    THEN <<"Template path is required">>
  ELSE IF ~Truthy(payload.vendor) \/ Trim(payload.vendor) = <<>>
    THEN <<"Email vendor is required">>
  ELSE IF ~IsProviderRegistered(payload.vendor)
    THEN <<"Unsupported email vendor">>
  ELSE NoError

\* validatePayload checking only the recipient and that the vendor is registered.
ValidatePayloadRecipientOnly(payload) ==
  IF ~Truthy(payload.to) \/ ~IsValidEmail(payload.to)
    THEN <<"Invalid or missing recipient email address">>
  ELSE IF ~Truthy(payload.vendor) \/ Trim(payload.vendor) = <<>>
    THEN <<"Email vendor is required">>
  ELSE IF ~IsProviderRegistered(payload.vendor)
    THEN <<"Unsupported email vendor">>
  ELSE NoError

\* EmailService.validatePayload: the message of the error it throws, or NoError.
ValidatePayload(payload) ==
  IF ~Truthy(payload.to) \/ ~IsValidEmail(payload.to)
    THEN <<"Invalid or missing recipient email address">>
  ELSE IF ~Truthy(payload.subject) \/ Trim(payload.subject) = <<>>
    THEN <<"Email subject is required">>
  ELSE IF ~Truthy(payload.templatePath) \/ Trim(payload.templatePath) = <<>>
    THEN <<"Template path is required">>
  ELSE IF ~Truthy(payload.vendor) \/ Trim(payload.vendor) = <<>>
    THEN <<"Email vendor is required">>
  ELSE IF ~IsProviderRegistered(payload.vendor)
    THEN <<"Unsupported email vendor">>
  ELSE NoError

\* The catch clause of a provider's send: Resend rethrows its own API error as
\* it is and wraps every other error, Nodemailer wraps every error.
ProviderError(class, message) ==
  IF class = "ResendProvider"
    THEN IF message = <<"Resend API error">>
           THEN message
           ELSE <<"Failed to send email via Resend">> \o message
    ELSE <<"Failed to send email via Nodemailer">> \o message

\* The catch clause of sendEmail: one new Error around whatever was thrown.
SendEmailError(message) == <<"Email sending failed">> \o message

\* A sendEmail call that has not been made.
\* starts counts the times sendBatchEmails has handed the payload to sendEmail.
NewCall ==
  [pc |-> "new", error |-> NoError, instance |-> NoInstance,
   fileReads |-> 0, transportCalls |-> 0, handled |-> "none", starts |-> 0]

\* A sendEmail call rejected with message.
Rejected(call, message) ==
  [call EXCEPT !.pc = "rejected", !.error = SendEmailError(message)]

\* TemplateService.render finds the compiled template in the cache of its own
\* instance.
CacheHit(instance, templatePath) ==
  instance.cacheEnabled /\ templatePath \in instance.templateCache

\* The synchronous part of provider.send, up to its first await: Resend checks
\* the address again, then both call TemplateService.render, which starts to
\* read the file unless the cache of the provider's TemplateService has the
\* template.
ProviderSendStart(call, payload) ==
  IF call.instance.class = "ResendProvider" /\ ~IsValidEmail(payload.to)
    THEN Rejected(call, ProviderError(call.instance.class, <<"Invalid recipient email address">>))
    ELSE [call EXCEPT !.pc = "rendering",
                      !.fileReads = IF CacheHit(call.instance, payload.templatePath)
                                      THEN @ ELSE @ + 1]

\* The synchronous part of sendEmail(payload): validatePayload, createProvider
\* and the start of provider.send.
StartSend(payload) ==
  LET invalid == ValidatePayload(payload) IN
  IF invalid # NoError THEN Rejected(NewCall, invalid)
  ELSE LET created == CreateProvider(payload.vendor) IN
       IF ~created.ok THEN Rejected(NewCall, created.error)
       ELSE ProviderSendStart([NewCall EXCEPT !.instance = created.instance], payload)

\* A send that hands the message to the transport whatever render did.
AfterRenderIgnoresError(call, payload) ==
  [call EXCEPT !.pc = "transport", !.transportCalls = @ + 1]

\* The call after TemplateService.render has settled: the HTML is handed to the
\* transport, or the render error is thrown.
AfterRender(call, payload) ==
  IF payload.templatePath \notin DOMAIN TemplateFiles
    THEN Rejected(call, ProviderError(call.instance.class,
                          <<"Failed to render template", "Template file not found">>))
  ELSE IF ~TemplateFiles[payload.templatePath]
    THEN Rejected(call, ProviderError(call.instance.class,
                          <<"Failed to render template", "Parse error">>))
  ELSE [call EXCEPT !.pc = "transport", !.transportCalls = @ + 1,
                    !.instance.templateCache =
                      IF call.instance.cacheEnabled
                        THEN @ \cup {payload.templatePath} ELSE @]

\* What the transport call of a provider can answer.
TransportOutcomes(class) ==
  IF class = "ResendProvider" THEN {"data", "error", "nodata"} ELSE {"sent", "throws"}

\* The call after the transport has answered.
AfterTransport(call, outcome) ==
  IF outcome \in {"data", "sent"} THEN [call EXCEPT !.pc = "resolved"]
  ELSE IF outcome = "error"
    THEN Rejected(call, ProviderError(call.instance.class, <<"Resend API error">>))
  ELSE IF outcome = "nodata"
    THEN Rejected(call, ProviderError(call.instance.class,
                          <<"Resend API returned no data in response">>))
  ELSE Rejected(call, ProviderError(call.instance.class, <<"Transport error">>))

Settled(call) == call.pc \in {"resolved", "rejected"}
InFlight(call) == call.pc \in {"rendering", "transport"}

\* TemplateService.render settles for the i-th call.
RenderDone(i) ==
  /\ i \in 1..Len(calls)
  /\ calls[i].pc = "rendering"
  /\ calls' = [calls EXCEPT ![i] = AfterRender(calls[i], payloads[i])]
  /\ UNCHANGED <<factoryVars, lastOp, nOps, payloads, opts, chunks, results, batch, test, feedbackVars>>

\* The transport answers the i-th call.
TransportDone(i, outcome) ==
  /\ i \in 1..Len(calls)
  /\ calls[i].pc = "transport"
  /\ outcome \in TransportOutcomes(calls[i].instance.class)
  /\ calls' = [calls EXCEPT ![i] = AfterTransport(calls[i], outcome)]
  /\ UNCHANGED <<factoryVars, lastOp, nOps, payloads, opts, chunks, results, batch, test, feedbackVars>>

\* ------------------------------------------------------ sendBatchEmails
\* maxConcurrency when the option is omitted.
DefaultMaxConcurrency == 5

Min(a, b) == IF a < b THEN a ELSE b

\* EmailService.chunkArray from index i on: slices of size elements.
RECURSIVE ChunkFrom(_, _, _)
ChunkFrom(array, size, i) ==
  IF i < Len(array)
    THEN <<SubSeq(array, i + 1, Min(i + size, Len(array)))>> \o ChunkFrom(array, size, i + size)
    ELSE <<>>

\* chunkArray with a loop that stops before a last, shorter slice.
RECURSIVE ChunkFromFull(_, _, _)
ChunkFromFull(array, size, i) ==
  IF i + size <= Len(array)
    THEN <<SubSeq(array, i + 1, i + size)>> \o ChunkFromFull(array, size, i + size)
    ELSE <<>>

ChunkArrayDropsTail(array, size) == ChunkFromFull(array, size, 0)

\* chunkArray with slices one element too long: slice(i, i + size + 1).
RECURSIVE ChunkFromLong(_, _, _)
ChunkFromLong(array, size, i) ==
  IF i < Len(array)
    THEN <<SubSeq(array, i + 1, Min(i + size + 1, Len(array)))>> \o ChunkFromLong(array, size, i + size)
    ELSE <<>>

ChunkArrayLongSlices(array, size) == ChunkFromLong(array, size, 0)

\* EmailService.chunkArray
ChunkArray(array, size) == ChunkFrom(array, size, 0)

Positions(n) == [i \in 1..n |-> i]
Range(seq) == {seq[i] : i \in 1..Len(seq)}

\* A loop that hands sendEmail every payload up to the last of the chunk,
\* those of the chunks before it again.
StartChunkFromFirst(cs, ps, chunk) ==
  [i \in 1..Len(cs) |->
     IF \E j \in Range(chunk) : i <= j
       THEN [StartSend(ps[i]) EXCEPT !.handled = "pending", !.starts = cs[i].starts + 1]
       ELSE cs[i]]

\* chunk.map(async (payload) => ...): every payload of the chunk has its
\* sendEmail call started, in order, before anything is awaited.
StartChunk(cs, ps, chunk) ==
  [i \in 1..Len(cs) |->
     IF i \in Range(chunk)
       THEN [StartSend(ps[i]) EXCEPT !.handled = "pending", !.starts = cs[i].starts + 1]
       ELSE cs[i]]

NoResults == [successful |-> 0, failed |-> 0, errors |-> <<>>]

\* That try/catch with errors.unshift in place of errors.push.
CountUnshift(res, i, call) ==
  IF call.pc = "resolved"
    THEN [res EXCEPT !.successful = @ + 1]
    ELSE [res EXCEPT !.failed = @ + 1,
                     !.errors = <<[of |-> i, message |-> call.error]>> \o @]

\* The try/catch around one sendEmail call, run once the call has settled:
\* the results it leaves.
Count(res, i, call) ==
  IF call.pc = "resolved"
    THEN [res EXCEPT !.successful = @ + 1]
    ELSE [res EXCEPT !.failed = @ + 1,
                     !.errors = Append(@, [of |-> i, message |-> call.error])]

\* A try/catch that swallows every error, whatever continueOnError says.
RethrowsNever(call, continueOnError) == FALSE

\* Whether that try/catch rethrows.
Rethrows(call, continueOnError) == call.pc = "rejected" /\ ~continueOnError

\* sendBatchEmails(payloads, options), up to its first await.  given names the
\* options present; the others take their defaults.
CallSendBatchEmails(ps, given, o) ==
  /\ batch.pc = "idle"
  /\ LET parallel == IF "parallel" \in given THEN o.parallel ELSE TRUE
         continueOnError == IF "continueOnError" \in given THEN o.continueOnError ELSE TRUE
         maxConcurrency ==
           IF "maxConcurrency" \in given THEN o.maxConcurrency ELSE DefaultMaxConcurrency
         cs == IF parallel THEN ChunkArray(Positions(Len(ps)), maxConcurrency) ELSE <<>>
         fresh == [i \in 1..Len(ps) |-> NewCall]
     IN /\ payloads' = ps
        /\ opts' = [parallel |-> parallel, continueOnError |-> continueOnError,
                    maxConcurrency |-> maxConcurrency]
        /\ chunks' = cs
        /\ results' = NoResults
        /\ IF (parallel /\ cs = <<>>) \/ (~parallel /\ ps = <<>>)
             THEN /\ calls' = fresh
                  /\ batch' = [batch EXCEPT !.pc = "returned"]
             ELSE /\ calls' = IF parallel THEN StartChunk(fresh, ps, cs[1])
                                          ELSE StartChunk(fresh, ps, <<1>>)
                  /\ batch' = [batch EXCEPT !.pc = "running", !.k = 1]
  /\ UNCHANGED <<factoryVars, lastOp, nOps, test, feedbackVars>>

\* Parallel mode: the map callback of the i-th payload resumes after its
\* sendEmail call has settled, counts it, and rethrows when continueOnError is
\* off.  The first callback of the awaited chunk to rethrow rejects its Promise.all.
ParSettle(i) ==
  /\ i \in 1..Len(calls)
  /\ batch.pc \in {"running", "thrown"}
  /\ opts.parallel
  /\ calls[i].handled = "pending"
  /\ Settled(calls[i])
  /\ results' = Count(results, i, calls[i])
  /\ calls' = [calls EXCEPT ![i].handled =
                 IF Rethrows(calls[i], opts.continueOnError) THEN "rejected" ELSE "fulfilled"]
  /\ batch' = IF Rethrows(calls[i], opts.continueOnError) /\ batch.allError = NoError
                THEN [batch EXCEPT !.allError = calls[i].error]
                ELSE batch
  /\ UNCHANGED <<factoryVars, lastOp, nOps, payloads, opts, chunks, test, feedbackVars>>

\* The loop going on as soon as one callback of the chunk has finished
\* (Promise.race in place of Promise.all).
NextChunkEarly ==
  /\ batch.pc = "running"
  /\ opts.parallel
  /\ \E i \in Range(chunks[batch.k]) : calls[i].handled = "fulfilled"
  /\ IF batch.k < Len(chunks)
       THEN /\ calls' = StartChunk(calls, payloads, chunks[batch.k + 1])
            /\ batch' = [batch EXCEPT !.k = @ + 1]
       ELSE /\ batch' = [batch EXCEPT !.pc = "returned"]
            /\ UNCHANGED calls
  /\ UNCHANGED <<factoryVars, lastOp, nOps, payloads, opts, chunks, results, test, feedbackVars>>

\* Parallel mode: Promise.all of the current chunk has resolved; the loop goes
\* on to start the next chunk, or sendBatchEmails returns results.
NextChunk ==
  /\ batch.pc = "running"
  /\ opts.parallel
  /\ \A i \in Range(chunks[batch.k]) : calls[i].handled = "fulfilled"
  /\ IF batch.k < Len(chunks)
       THEN /\ calls' = StartChunk(calls, payloads, chunks[batch.k + 1])
            /\ batch' = [batch EXCEPT !.k = @ + 1]
       ELSE /\ batch' = [batch EXCEPT !.pc = "returned"]
            /\ UNCHANGED calls
  /\ UNCHANGED <<factoryVars, lastOp, nOps, payloads, opts, chunks, results, test, feedbackVars>>

\* Parallel mode: Promise.all of the current chunk has rejected; sendBatchEmails
\* throws that error.  The chunk's other calls are not cancelled.
BatchReject ==
  /\ batch.pc = "running"
  /\ opts.parallel
  /\ batch.allError # NoError
  /\ batch' = [batch EXCEPT !.pc = "thrown", !.error = batch.allError]
  /\ UNCHANGED <<factoryVars, lastOp, nOps, payloads, opts, chunks, calls, results, test, feedbackVars>>

\* Sequential mode: the loop resumes after the i-th sendEmail call has settled,
\* counts it, and throws, starts the next call or returns results.
SeqSettle(i) ==
  /\ batch.pc = "running"
  /\ ~opts.parallel
  /\ batch.k = i
  /\ i \in 1..Len(calls)
  /\ Settled(calls[i])
  /\ results' = Count(results, i, calls[i])
  /\ LET handled == [calls EXCEPT ![i].handled =
                       IF Rethrows(calls[i], opts.continueOnError) THEN "rejected" ELSE "fulfilled"]
     IN IF Rethrows(calls[i], opts.continueOnError)
          THEN /\ calls' = handled
               /\ batch' = [batch EXCEPT !.pc = "thrown", !.error = calls[i].error]
        ELSE IF i < Len(payloads)
          THEN /\ calls' = StartChunk(handled, payloads, <<i + 1>>)
               /\ batch' = [batch EXCEPT !.k = i + 1]
        ELSE /\ calls' = handled
             /\ batch' = [batch EXCEPT !.pc = "returned"]
  /\ UNCHANGED <<factoryVars, lastOp, nOps, payloads, opts, chunks, test, feedbackVars>>

\* ------------------------------------------- chunkArray, step by step
\* Array.prototype.slice(start, end): a negative index counts from the end of
\* the array, and both are clamped to its bounds.
SliceIndex(array, index) ==
  IF index < 0 THEN (IF Len(array) + index < 0 THEN 0 ELSE Len(array) + index)
  ELSE Min(index, Len(array))
Slice(array, start, end) ==
  SubSeq(array, SliceIndex(array, start) + 1, SliceIndex(array, end))

\* sendBatchEmails(payloads, options) in parallel mode, up to the loop of
\* chunkArray; maxConcurrency is whatever number the caller has passed. While
\* chunkArray runs, batch.k is its loop variable i.
CallSendBatchEmailsAny(ps, continueOnError, maxConcurrency) ==
  /\ batch.pc = "idle"
  /\ payloads' = ps
  /\ opts' = [parallel |-> TRUE, continueOnError |-> continueOnError,
              maxConcurrency |-> maxConcurrency]
  /\ chunks' = <<>>
  /\ results' = NoResults
  /\ calls' = [i \in 1..Len(ps) |-> NewCall]
  /\ batch' = [batch EXCEPT !.pc = "chunking", !.k = 0]
  /\ UNCHANGED <<factoryVars, lastOp, nOps, test, feedbackVars>>

\* One iteration of chunkArray's for loop: push the slice, add size to i. The
\* first MaxChunks chunks are recorded; of the iterations after them, which
\* only a loop that has run past the end of the array makes, the model keeps
\* the parity.
ChunkArrayStep ==
  /\ batch.pc = "chunking"
  /\ batch.k < Len(payloads)
  /\ IF Len(chunks) < MaxChunks
       THEN /\ chunks' = Append(chunks, Slice(Positions(Len(payloads)), batch.k,
                                              batch.k + opts.maxConcurrency))
            /\ batch' = [batch EXCEPT !.k = @ + opts.maxConcurrency]
       ELSE /\ chunks' = chunks
            /\ batch' = [batch EXCEPT !.over = 1 - @]
  /\ UNCHANGED <<factoryVars, lastOp, nOps, payloads, opts, calls, results, test, feedbackVars>>

\* chunkArray's loop has ended: the for...of over the chunks starts the sends
\* of the first chunk, or sendBatchEmails returns when there is none.
ChunkArrayReturn ==
  /\ batch.pc = "chunking"
  /\ ~(batch.k < Len(payloads))
  /\ IF chunks = <<>>
       THEN /\ batch' = [batch EXCEPT !.pc = "returned", !.k = 0]
            /\ UNCHANGED calls
       ELSE /\ calls' = StartChunk(calls, payloads, chunks[1])
            /\ batch' = [batch EXCEPT !.pc = "running", !.k = 1]
  /\ UNCHANGED <<factoryVars, lastOp, nOps, payloads, opts, chunks, results, test, feedbackVars>>

\* ------------------------------------------------------- specifications
\* The factory a new EmailService holds: the two default providers, and the
\* configurations EmailConfig loaded for them.
DefaultProviders == (resend :> "ResendProvider") @@ (nodemailer :> "NodemailerProvider")
\* ------------------------------------------------------ FeedbackService
\* Strings of the feedback payloads.
john == <<"J">>
jane == <<"S">>
bob == <<"b","@","c",".","d">>
shop == <<"s","h","o","p">>
cart == <<"c","a","r","t">>
reviewer == <<"r","1">>
clientTrackingId == <<"T","-","1">>

positive == <<"positive">>
negative == <<"negative">>
suggestion == <<"suggestion">>
bug == <<"bug">>
feature_request == <<"feature_request">>
praise == <<"praise">>
low == <<"low">>
medium == <<"medium">>
high == <<"high">>
critical == <<"critical">>
urgent == <<"urgent">>

\* The enum lists of validatePayload and of feedbackSchema.
FeedbackTypes == {positive, negative, suggestion, bug, feature_request}
Priorities == {low, medium, high, critical}
Statuses == {"new", "reviewed", "in_progress", "resolved", "dismissed"}

\* A JavaScript number n/d in lowest terms; d = 0 stands for a value that is
\* absent.
Num(n, d) == [n |-> n, d |-> d]
NoNumber == Num(0, 0)
\* !x on a number or an absent value
NumFalsy(x) == x.d = 0 \/ x.n = 0
\* x < k and x > k for a number x and a whole number k
NumLess(x, k) == x.d # 0 /\ x.n < k * x.d
NumGreater(x, k) == x.d # 0 /\ x.n > k * x.d

\* The objects of a FeedbackSubmissionPayload; present tells whether the
\* object is there at all.
Party(name, email) == [present |-> TRUE, name |-> name, email |-> email]
NoParty == [present |-> FALSE, name |-> Undefined, email |-> Undefined]
Body(content, rating, type, priority) ==
  [present |-> TRUE, content |-> content, rating |-> rating, type |-> type,
   priority |-> priority]
NoBody ==
  [present |-> FALSE, content |-> Undefined, rating |-> NoNumber, type |-> Undefined,
   priority |-> Undefined]
Context(applicationName, featureName) ==
  [present |-> TRUE, applicationName |-> applicationName, featureName |-> featureName]
NoContext == [present |-> FALSE, applicationName |-> Undefined, featureName |-> Undefined]

\* trackingId is metadata.customFields.trackingId of the payload.
Submission(submitter, recipient, feedback, context, trackingId) ==
  [submitter |-> submitter, recipient |-> recipient, feedback |-> feedback,
   context |-> context, trackingId |-> trackingId]

goodSubmission ==
  Submission(Party(john, ana), Party(jane, bob), Body(hello, Num(5, 1), positive, Undefined),
             Context(shop, cart), Undefined)

\* FeedbackService.validatePayload without the two checks of the context.
FeedbackValidatePayloadNoContext(payload) ==
  IF ~payload.feedback.present
    THEN <<"TypeError: Cannot read properties of undefined (reading 'type')">>
  ELSE
    (IF ~Truthy(payload.submitter.name) THEN <<"Submitter name is required">> ELSE <<>>)
    \o (IF ~Truthy(payload.submitter.email) THEN <<"Submitter email is required">> ELSE <<>>)
    \o (IF ~IsValidEmail(payload.submitter.email) THEN <<"Submitter email is invalid">> ELSE <<>>)
    \o (IF ~Truthy(payload.recipient.name) THEN <<"Recipient name is required">> ELSE <<>>)
    \o (IF ~Truthy(payload.recipient.email) THEN <<"Recipient email is required">> ELSE <<>>)
    \o (IF ~IsValidEmail(payload.recipient.email) THEN <<"Recipient email is invalid">> ELSE <<>>)
    \o (IF ~Truthy(payload.feedback.content) THEN <<"Feedback content is required">> ELSE <<>>)
    \o (IF \/ NumFalsy(payload.feedback.rating)
           \/ NumLess(payload.feedback.rating, 1)
           \/ NumGreater(payload.feedback.rating, 5)
          THEN <<"Rating must be between 1 and 5">> ELSE <<>>)
    \o (IF ~Truthy(payload.feedback.type) THEN <<"Feedback type is required">> ELSE <<>>)
    \o (IF payload.feedback.type \notin FeedbackTypes THEN <<"Invalid feedback type">> ELSE <<>>)

\* FeedbackService.validatePayload: the messages of the error it throws, in
\* order, or the empty list when it returns. With no feedback object the
\* unguarded payload.feedback.type throws a TypeError instead.
FeedbackValidatePayload(payload) ==
  IF ~payload.feedback.present
    THEN <<"TypeError: Cannot read properties of undefined (reading 'type')">>
  ELSE
    (IF ~Truthy(payload.submitter.name) THEN <<"Submitter name is required">> ELSE <<>>)
    \o (IF ~Truthy(payload.submitter.email) THEN <<"Submitter email is required">> ELSE <<>>)
    \o (IF ~IsValidEmail(payload.submitter.email) THEN <<"Submitter email is invalid">> ELSE <<>>)
    \o (IF ~Truthy(payload.recipient.name) THEN <<"Recipient name is required">> ELSE <<>>)
    \o (IF ~Truthy(payload.recipient.email) THEN <<"Recipient email is required">> ELSE <<>>)
    \o (IF ~IsValidEmail(payload.recipient.email) THEN <<"Recipient email is invalid">> ELSE <<>>)
    \o (IF ~Truthy(payload.feedback.content) THEN <<"Feedback content is required">> ELSE <<>>)
    \o (IF \/ NumFalsy(payload.feedback.rating)
           \/ NumLess(payload.feedback.rating, 1)
           \/ NumGreater(payload.feedback.rating, 5)
          THEN <<"Rating must be between 1 and 5">> ELSE <<>>)
    \o (IF ~Truthy(payload.feedback.type) THEN <<"Feedback type is required">> ELSE <<>>)
    \o (IF payload.feedback.type \notin FeedbackTypes THEN <<"Invalid feedback type">> ELSE <<>>)
    \o (IF ~Truthy(payload.context.applicationName) THEN <<"Application name is required">> ELSE <<>>)
    \o (IF ~Truthy(payload.context.featureName) THEN <<"Feature name is required">> ELSE <<>>)

\* getEstimatedResponseTime looking at the type before the priority.
GetEstimatedResponseTimeTypeFirst(feedbackType, priority) ==
  IF feedbackType = bug THEN "2-3 business days"
  ELSE IF feedbackType = negative THEN "1-2 business days"
  ELSE IF priority = critical THEN "2-4 hours"
  ELSE IF priority = high THEN "24-48 hours"
  ELSE "3-5 business days"

\* FeedbackService.getEstimatedResponseTime
GetEstimatedResponseTime(feedbackType, priority) ==
  IF priority = critical THEN "2-4 hours"
  ELSE IF priority = high THEN "24-48 hours"
  ELSE IF feedbackType = bug THEN "2-3 business days"
  ELSE IF feedbackType = negative THEN "1-2 business days"
  ELSE "3-5 business days"

\* The enum of feedbackSchema.status accepting whatever it is given.
StatusAcceptedAny(status) == TRUE

\* The enum of feedbackSchema.status
StatusAccepted(status) == status \in Statuses

\* The validation mongoose runs on save: required paths, the bounds of
\* feedback.rating (a Number, whole or not) and the enums of type, priority
\* and status. TRUE when the document passes.
SchemaAccepts(payload, status) ==
  /\ Truthy(payload.submitter.name) /\ Truthy(payload.submitter.email)
  /\ Truthy(payload.recipient.name) /\ Truthy(payload.recipient.email)
  /\ Truthy(payload.feedback.content)
  /\ payload.feedback.rating.d # 0
  /\ ~NumLess(payload.feedback.rating, 1)
  /\ ~NumGreater(payload.feedback.rating, 5)
  /\ payload.feedback.type \in FeedbackTypes
  /\ payload.feedback.priority \in Priorities \cup {Undefined}
  /\ Truthy(payload.context.applicationName) /\ Truthy(payload.context.featureName)
  /\ StatusAccepted(status)

\* No Date: reviewedAt of a document that was never reviewed.
NoDate == 0

\* The document saveFeedback hands to the store, with both flags already set.
NewRecordNotified(payload, trackingId) ==
  [status |-> "new", reviewedAt |-> NoDate, reviewedBy |-> Undefined,
   submitterNotified |-> TRUE, recipientNotified |-> TRUE, trackingId |-> trackingId,
   type |-> payload.feedback.type, rating |-> payload.feedback.rating,
   applicationName |-> payload.context.applicationName]

\* The document saveFeedback hands to the store: feedbackData, and the
\* tracking id the pre-save hook has put in it.
NewRecord(payload, trackingId) ==
  [status |-> "new", reviewedAt |-> NoDate, reviewedBy |-> Undefined,
   submitterNotified |-> FALSE, recipientNotified |-> FALSE, trackingId |-> trackingId,
   type |-> payload.feedback.type, rating |-> payload.feedback.rating,
   applicationName |-> payload.context.applicationName]

\* Math.random().toString(36).substr(2, 9): the values it takes here.
RandomParts == {"k3x", "q9z"}

\* The pre-save hook: the payload's own tracking id when it has one, else
\* `FB-${Date.now()}-${random}`.
PreSaveTrackingId(payload, time, random) ==
  IF Truthy(payload.trackingId) THEN payload.trackingId
  ELSE <<"FB-", ToString(time), "-", random>>

\* The clock when it is read next: it has not moved, or it has.
ClockReads == {now, now + 1}

NoSubmission == Submission(NoParty, NoParty, NoBody, NoContext, Undefined)
NoResponse ==
  [success |-> FALSE, message |-> "", feedbackId |-> 0, trackingId |-> Undefined,
   estimatedResponseTime |-> "", submitterNotified |-> FALSE,
   recipientNotified |-> FALSE, error |-> <<>>]
\* No submitFeedback call has been made.
NoSub ==
  [pc |-> "idle", payload |-> NoSubmission, id |-> 0, trackingId |-> Undefined,
   dispatches |-> 0, submitterEmailSent |-> FALSE, recipientEmailSent |-> FALSE,
   flagWrites |-> 0, response |-> NoResponse]

\* submitFeedback without its catch clause: the error reaches the caller and
\* there is no response object.
Rethrown(error) == [NoResponse EXCEPT !.error = error]

\* The catch clause of submitFeedback: the unsuccessful response.
FailureResponse(error) ==
  [NoResponse EXCEPT !.message = "Failed to submit feedback", !.error = error]

\* The return statement of submitFeedback.
SuccessResponse(s) ==
  [success |-> TRUE, message |-> "Feedback submitted successfully", feedbackId |-> s.id,
   trackingId |-> s.trackingId,
   estimatedResponseTime |->
     GetEstimatedResponseTime(s.payload.feedback.type, s.payload.feedback.priority),
   submitterNotified |-> s.submitterEmailSent, recipientNotified |-> s.recipientEmailSent,
   error |-> <<>>]

\* The payloads of sendSubmitterConfirmation and sendRecipientNotification.
SubmitterConfirmation(payload) ==
  Payload(payload.submitter.email, <<"Feedback Received">>, confirmationHbs, resend)
RecipientNotification(payload) ==
  Payload(payload.recipient.email, <<"New Feedback">>, notificationHbs, resend)

\* The message of the error validatePayload has thrown: the list of its
\* findings after `Validation failed: `, or the TypeError's own message.
ThrownMessage(payload, errors) ==
  IF ~payload.feedback.present THEN errors ELSE <<"Validation failed">> \o errors

\* A caller's submitFeedback(payload), up to its first await: validatePayload,
\* then initialize() when not connected, else saveFeedback's save().
SubmitFeedbackCall(payload) ==
  /\ nOps < MaxOps
  /\ sub.pc \in {"idle", "returned"}
  /\ nOps' = nOps + 1
  /\ LET errors == FeedbackValidatePayload(payload)
         s == [NoSub EXCEPT !.payload = payload] IN
     sub' = IF errors # <<>>
              THEN [s EXCEPT !.pc = "returned",
                             !.response = FailureResponse(ThrownMessage(payload, errors))]
            ELSE IF ~isConnected THEN [s EXCEPT !.pc = "connecting"]
            ELSE [s EXCEPT !.pc = "saving"]
  /\ UNCHANGED <<factoryVars, lastOp, callVars, test, analytics, isConnected, store, upd, now>>

\* mongoose.connect settles inside submitFeedback's initialize().
SubmitConnectDone(connected) ==
  /\ sub.pc = "connecting"
  /\ isConnected' = (isConnected \/ connected)
  /\ sub' = IF connected THEN [sub EXCEPT !.pc = "saving"]
            ELSE [sub EXCEPT !.pc = "returned",
                             !.response = FailureResponse(<<"Failed to initialize FeedbackService">>)]
  /\ UNCHANGED <<factoryVars, lastOp, nOps, callVars, test, analytics, store, upd, now>>

\* feedback.save() of saveFeedback settles. When the document is stored,
\* submitFeedback goes on into sendEmailNotifications, which starts both
\* sendEmail calls before it awaits them.
InsertDone(written, random) ==
  /\ sub.pc = "saving"
  /\ random \in RandomParts
  /\ \E time \in ClockReads :
       /\ now' = time
       /\ IF written /\ SchemaAccepts(sub.payload, "new")
            THEN LET trackingId == PreSaveTrackingId(sub.payload, time, random) IN
                 /\ store' = Append(store, NewRecord(sub.payload, trackingId))
                 /\ sub' = [sub EXCEPT !.pc = "notifying", !.id = Len(store) + 1,
                                       !.trackingId = trackingId, !.dispatches = 2]
                 /\ payloads' = <<SubmitterConfirmation(sub.payload),
                                  RecipientNotification(sub.payload)>>
                 /\ calls' = <<StartSend(SubmitterConfirmation(sub.payload)),
                               StartSend(RecipientNotification(sub.payload))>>
            ELSE /\ sub' = [sub EXCEPT !.pc = "returned",
                                       !.response =
                                         FailureResponse(IF SchemaAccepts(sub.payload, "new")
                                                           THEN <<"MongoError">>
                                                           ELSE <<"ValidationError">>)]
                 /\ UNCHANGED <<store, payloads, calls>>
  /\ UNCHANGED <<factoryVars, lastOp, nOps, opts, chunks, results, batch, test, analytics,
                 isConnected, upd>>

\* What sendEmailNotifications returns with Promise.all in place of
\* Promise.allSettled: it throws as soon as one send has failed.
EmailResultsAll(submitterCall, recipientCall) ==
  [threw |-> submitterCall.pc = "rejected" \/ recipientCall.pc = "rejected",
   submitterEmailSent |-> submitterCall.pc = "resolved",
   recipientEmailSent |-> recipientCall.pc = "resolved"]

\* What sendEmailNotifications returns once Promise.allSettled has settled.
EmailResults(submitterCall, recipientCall) ==
  [threw |-> FALSE,
   submitterEmailSent |-> submitterCall.pc = "resolved",
   recipientEmailSent |-> recipientCall.pc = "resolved"]

\* Promise.race in place of Promise.allSettled: settled as soon as one of the
\* two sends is.
RaceSettled(submitterCall, recipientCall) ==
  Settled(submitterCall) \/ Settled(recipientCall)

\* Whether Promise.allSettled of the two sends has settled.
AllSettled(submitterCall, recipientCall) ==
  Settled(submitterCall) /\ Settled(recipientCall)

\* Both sends have settled: submitFeedback sets the flags of its document and,
\* when at least one email was sent, saves it; otherwise it returns.
NotificationsSettled ==
  /\ sub.pc = "notifying"
  /\ AllSettled(calls[1], calls[2])
  /\ LET emailResults == EmailResults(calls[1], calls[2])
         s == [sub EXCEPT !.submitterEmailSent = emailResults.submitterEmailSent,
                          !.recipientEmailSent = emailResults.recipientEmailSent] IN
     sub' = IF emailResults.threw
              THEN [sub EXCEPT !.pc = "returned",
                               !.response = FailureResponse(<<"send failed">>)]
            ELSE IF emailResults.submitterEmailSent \/ emailResults.recipientEmailSent
              THEN [s EXCEPT !.pc = "updating"]
            ELSE [s EXCEPT !.pc = "returned", !.response = SuccessResponse(s)]
  /\ UNCHANGED <<factoryVars, lastOp, nOps, callVars, test, analytics, isConnected, store, upd, now>>

\* A save that writes the whole document as submitFeedback holds it in
\* memory, the status and reviewer fields it was created with included.
WithFlagsWholeDocument(record, s) ==
  [NewRecord(s.payload, s.trackingId) EXCEPT
     !.submitterNotified = s.submitterEmailSent,
     !.recipientNotified = s.recipientEmailSent]

\* The save of the flags marking both notifications as sent.
WithFlagsBoth(record, s) ==
  [record EXCEPT !.submitterNotified = TRUE, !.recipientNotified = TRUE]

\* The stored document after the save of the flags: save() writes the paths
\* the call has modified, those of the emails that were sent.
WithFlags(record, s) ==
  [record EXCEPT !.submitterNotified = @ \/ s.submitterEmailSent,
                 !.recipientNotified = @ \/ s.recipientEmailSent]

\* feedbackDoc.save() of submitFeedback settles.
FlagSaveDone(written) ==
  /\ sub.pc = "updating"
  /\ IF written
       THEN /\ store' = [store EXCEPT ![sub.id] = WithFlags(@, sub)]
            /\ sub' = [sub EXCEPT !.pc = "returned", !.flagWrites = @ + 1,
                                  !.response = SuccessResponse(sub)]
       ELSE /\ sub' = [sub EXCEPT !.pc = "returned",
                                  !.response = FailureResponse(<<"MongoError">>)]
            /\ UNCHANGED store
  /\ UNCHANGED <<factoryVars, lastOp, nOps, callVars, test, analytics, isConnected, upd, now>>

\* No status update has been called.
NoUpd ==
  [pc |-> "idle", via |-> "none", id |-> 0, status |-> "", reviewerId |-> Undefined,
   review |-> FALSE, reviewedAt |-> NoDate, outcome |-> "none", http |-> 0]

\* Whether updateFeedbackStatus sets reviewedAt and reviewedBy, were the
\* reviewer id not looked at.
SetsReviewWhenReviewed(status, reviewerId) == status = "reviewed"

\* Whether updateFeedbackStatus sets reviewedAt and reviewedBy.
SetsReview(status, reviewerId) == status = "reviewed" /\ Truthy(reviewerId)

\* The stored document after feedback.save() of updateFeedbackStatus: save()
\* writes the paths the call has modified.
WithStatus(record, u) ==
  [record EXCEPT !.status = u.status,
                 !.reviewedAt = IF u.review THEN u.reviewedAt ELSE @,
                 !.reviewedBy = IF u.review THEN u.reviewerId ELSE @]

\* The first await of updateFeedbackStatus: initialize() when not connected,
\* else findById.
UpdateStart(via, id, status, reviewerId) ==
  [NoUpd EXCEPT !.pc = IF isConnected THEN "finding" ELSE "connecting",
                !.via = via, !.id = id, !.status = status, !.reviewerId = reviewerId]

\* A caller's FeedbackService.updateFeedbackStatus(id, status, reviewerId).
UpdateFeedbackStatusCall(id, status, reviewerId) ==
  /\ nOps < MaxOps
  /\ upd.pc \in {"idle", "done"}
  /\ nOps' = nOps + 1
  /\ upd' = UpdateStart("service", id, status, reviewerId)
  /\ UNCHANGED <<factoryVars, lastOp, callVars, test, analytics, isConnected, store, sub, now>>

\* The status list the route checks req.body.status against.
RouteAccepts(status) ==
  status \in {"new", "reviewed", "in_progress", "resolved", "dismissed"}

\* PATCH /:id/status, up to its first await: 400 for a status outside the
\* list, else the call of updateFeedbackStatus.
PatchStatus(id, status, reviewerId) ==
  /\ nOps < MaxOps
  /\ upd.pc \in {"idle", "done"}
  /\ nOps' = nOps + 1
  /\ upd' = IF ~RouteAccepts(status)
              THEN [NoUpd EXCEPT !.pc = "done", !.via = "route", !.id = id,
                                 !.status = status, !.reviewerId = reviewerId,
                                 !.outcome = "INVALID_STATUS", !.http = 400]
              ELSE UpdateStart("route", id, status, reviewerId)
  /\ UNCHANGED <<factoryVars, lastOp, callVars, test, analytics, isConnected, store, sub, now>>

\* The status the route answers with for an outcome of updateFeedbackStatus.
RouteStatus(via, outcome) ==
  IF via # "route" THEN 0
  ELSE IF outcome = "updated" THEN 200
  ELSE IF outcome = "null" THEN 404
  ELSE 500

\* The update ends with outcome: the value or the error of
\* updateFeedbackStatus, and the answer of the route when it made the call.
Finished(u, outcome) ==
  [u EXCEPT !.pc = "done", !.outcome = outcome, !.http = RouteStatus(u.via, outcome)]

\* mongoose.connect settles inside updateFeedbackStatus's initialize().
UpdateConnectDone(connected) ==
  /\ upd.pc = "connecting"
  /\ isConnected' = (isConnected \/ connected)
  /\ upd' = IF connected THEN [upd EXCEPT !.pc = "finding"]
            ELSE Finished(upd, "ConnectError")
  /\ UNCHANGED <<factoryVars, lastOp, nOps, callVars, test, analytics, store, sub, now>>

\* FeedbackModel.findById settles: null is returned, or the document is
\* modified in memory and its save() is called.
FindByIdDone ==
  /\ upd.pc = "finding"
  /\ IF upd.id \notin 1..Len(store)
       THEN /\ upd' = Finished(upd, "null")
            /\ UNCHANGED now
       ELSE IF SetsReview(upd.status, upd.reviewerId)
         THEN \E time \in ClockReads :
                /\ now' = time
                /\ upd' = [upd EXCEPT !.pc = "saving", !.review = TRUE, !.reviewedAt = time]
         ELSE /\ upd' = [upd EXCEPT !.pc = "saving"]
              /\ UNCHANGED now
  /\ UNCHANGED <<factoryVars, lastOp, nOps, callVars, test, analytics, isConnected, store, sub>>

\* feedback.save() of updateFeedbackStatus settles: the schema's validation
\* rejects a status outside the enum before anything is written.
StatusSaveDone(written) ==
  /\ upd.pc = "saving"
  /\ IF ~StatusAccepted(upd.status)
       THEN /\ upd' = Finished(upd, "ValidationError")
            /\ UNCHANGED store
     ELSE IF ~written
       THEN /\ upd' = Finished(upd, "SaveError")
            /\ UNCHANGED store
     ELSE /\ store' = [store EXCEPT ![upd.id] = WithStatus(@, upd)]
          /\ upd' = Finished(upd, "updated")
  /\ UNCHANGED <<factoryVars, lastOp, nOps, callVars, test, analytics, isConnected, sub, now>>


\* --------------------------------------------------------- getAnalytics
\* The sum of two numbers, as a fraction that need not be in lowest terms.
NumAdd(x, y) == Num(x.n * y.d + y.n * x.d, x.d * y.d)

\* The documents the $match stage lets through: all of them for an empty
\* matchStage, else those of the application.
Match(docs, applicationName) ==
  SelectSeq(docs, LAMBDA doc : Truthy(applicationName) => doc.applicationName = applicationName)

\* { $sum: { $cond: [{ $eq: ['$feedback.type', type] }, 1, 0] } }
TypeCount(docs, type) == Len(SelectSeq(docs, LAMBDA doc : doc.type = type))

\* The sum of '$feedback.rating' over the documents.
RECURSIVE RatingSum(_)
RatingSum(docs) ==
  IF docs = <<>> THEN Num(0, 1) ELSE NumAdd(Head(docs).rating, RatingSum(Tail(docs)))

\* { $avg: '$feedback.rating' } over a group that is not empty.
RatingAvg(docs) == Num(RatingSum(docs).n, RatingSum(docs).d * Len(docs))

\* The object getAnalytics returns when the aggregation has no group.
ZeroAnalytics ==
  [totalFeedbacks |-> 0, averageRating |-> Num(0, 1), positiveCount |-> 0,
   negativeCount |-> 0, suggestionCount |-> 0, bugCount |-> 0, featureRequestCount |-> 0]

\* No object at all: the value of result[0] for an empty result.
NoGroup == [ZeroAnalytics EXCEPT !.averageRating = NoNumber]

\* The $group stage with feature requests counted under another name.
GroupStageFeatureSpelling(docs) ==
  IF docs = <<>> THEN <<>>
  ELSE <<[totalFeedbacks |-> Len(docs), averageRating |-> RatingAvg(docs),
          positiveCount |-> TypeCount(docs, positive),
          negativeCount |-> TypeCount(docs, negative),
          suggestionCount |-> TypeCount(docs, suggestion),
          bugCount |-> TypeCount(docs, bug),
          featureRequestCount |-> TypeCount(docs, <<"featureRequest">>)]>>

\* The $group stage with _id: null: one group for all the documents that
\* reach it, and no group when none does.
GroupStage(docs) ==
  IF docs = <<>> THEN <<>>
  ELSE <<[totalFeedbacks |-> Len(docs), averageRating |-> RatingAvg(docs),
          positiveCount |-> TypeCount(docs, positive),
          negativeCount |-> TypeCount(docs, negative),
          suggestionCount |-> TypeCount(docs, suggestion),
          bugCount |-> TypeCount(docs, bug),
          featureRequestCount |-> TypeCount(docs, feature_request)]>>

\* result[0] with no object to fall back on.
FirstOnly(result) == IF result = <<>> THEN NoGroup ELSE result[1]

\* result[0] || { totalFeedbacks: 0, ... }
FirstOrZero(result) == IF result = <<>> THEN ZeroAnalytics ELSE result[1]

\* No getAnalytics call has been made.
NoAnalytics ==
  [pc |-> "idle", applicationName |-> Undefined, result |-> NoGroup, error |-> NoError]

\* A caller's getAnalytics(applicationName), up to its first await:
\* initialize() when not connected, else the aggregation.
GetAnalyticsCall(applicationName) ==
  /\ nOps < MaxOps
  /\ analytics.pc \in {"idle", "returned", "thrown"}
  /\ nOps' = nOps + 1
  /\ analytics' = [NoAnalytics EXCEPT !.pc = IF isConnected THEN "aggregating" ELSE "connecting",
                                      !.applicationName = applicationName]
  /\ UNCHANGED <<factoryVars, lastOp, callVars, test, isConnected, store, sub, upd, now>>

\* mongoose.connect settles inside getAnalytics's initialize().
AnalyticsConnectDone(connected) ==
  /\ analytics.pc = "connecting"
  /\ isConnected' = (isConnected \/ connected)
  /\ analytics' = IF connected THEN [analytics EXCEPT !.pc = "aggregating"]
                  ELSE [analytics EXCEPT !.pc = "thrown",
                          !.error = <<"Failed to initialize FeedbackService">>]
  /\ UNCHANGED <<factoryVars, lastOp, nOps, callVars, test, store, sub, upd, now>>

\* FeedbackModel.aggregate settles: with the groups of the pipeline, or with
\* the error of the database.
AggregateDone(answered) ==
  /\ analytics.pc = "aggregating"
  /\ analytics' =
       IF answered
         THEN [analytics EXCEPT
                 !.pc = "returned",
                 !.result = FirstOrZero(GroupStage(Match(store, analytics.applicationName)))]
         ELSE [analytics EXCEPT !.pc = "thrown", !.error = <<"MongoError">>]
  /\ UNCHANGED <<factoryVars, lastOp, nOps, callVars, test, isConnected, store, sub, upd, now>>

\* new FeedbackService(emailService) on an empty feedbacks collection.
InitFeedback ==
  /\ isConnected = FALSE
  /\ store = <<>>
  /\ sub = NoSub
  /\ upd = NoUpd
  /\ analytics = NoAnalytics
  /\ now = 1

LoadedConfigs == (resend :> ResendConfig) @@ (nodemailer :> SmtpConfig)

\* over counts, modulo 2, the chunks chunkArray has pushed beyond those recorded.
NoBatch == [pc |-> "idle", k |-> 0, allError |-> NoError, error |-> NoError, over |-> 0]
NoOp == [op |-> "none", vendor |-> <<>>, result |-> NoResult]

Init ==
  /\ providers = DefaultProviders
  /\ configs = LoadedConfigs
  /\ lastOp = NoOp
  /\ nOps = 0
  /\ payloads = <<>>
  /\ opts = [parallel |-> TRUE, continueOnError |-> TRUE, maxConcurrency |-> DefaultMaxConcurrency]
  /\ chunks = <<>>
  /\ calls = <<>>
  /\ results = NoResults
  /\ batch = NoBatch
  /\ test = NoTest
  /\ InitFeedback

RECURSIVE SeqsOf(_, _)
SeqsOf(S, n) ==
  IF n = 0 THEN {<<>>}
  ELSE SeqsOf(S, n - 1) \cup {Append(q, x) : q \in {r \in SeqsOf(S, n - 1) : Len(r) = n - 1}, x \in S}

OptionNames == {"parallel", "continueOnError", "maxConcurrency"}
OptionValues ==
  [parallel : BOOLEAN, continueOnError : BOOLEAN, maxConcurrency : 1..MaxConcurrency]

\* Any call of sendBatchEmails on the idle service.
SendBatchEmails ==
  /\ batch.pc = "idle"
  /\ \E ps \in SeqsOf(BatchPayloads, MaxPayloads), given \in SUBSET OptionNames, o \in OptionValues :
       CallSendBatchEmails(ps, given, o)

Next ==
  \/ SendBatchEmails
  \/ \E i \in 1..MaxPayloads : RenderDone(i)
  \/ \E i \in 1..MaxPayloads, outcome \in {"data", "error", "nodata", "sent", "throws"} :
       TransportDone(i, outcome)
  \/ \E i \in 1..MaxPayloads : ParSettle(i)
  \/ NextChunk
  \/ BatchReject
  \/ \E i \in 1..MaxPayloads : SeqSettle(i)

Spec == Init /\ [][Next]_vars

\* The factory alone: new EmailServiceFactory(), then any of its operations.
InitFactory ==
  /\ providers = DefaultProviders
  /\ configs = <<>>
  /\ lastOp = NoOp
  /\ nOps = 0
  /\ payloads = <<>>
  /\ opts = [parallel |-> TRUE, continueOnError |-> TRUE, maxConcurrency |-> DefaultMaxConcurrency]
  /\ chunks = <<>>
  /\ calls = <<>>
  /\ results = NoResults
  /\ batch = NoBatch
  /\ test = NoTest
  /\ InitFeedback

NextFactory ==
  \/ \E vendor \in VendorNames, class \in ProviderClasses : RegisterProvider(vendor, class)
  \/ \E vendor \in VendorNames, config \in ProviderConfigs : SetProviderConfig(vendor, config)
  \/ \E vendor \in VendorNames : UnregisterProvider(vendor)
  \/ \E vendor \in VendorNames : CreateProviderCall(vendor)
  \/ \E vendor \in VendorNames : TestConfigurationCall(vendor)
  \/ \E outcome \in VerifyOutcomes : VerifyConnectionDone(outcome)

SpecFactory == InitFactory /\ [][NextFactory]_vars

\* EmailService.registerProvider(vendor, providerClass, config?): hasConfig tells
\* whether the optional configuration is given.
ServiceRegisterProvider(vendor, class, hasConfig, config) ==
  /\ nOps < MaxOps
  /\ providers' = MapSet(providers, ToLowerCase(vendor), class)
  /\ configs' = IF hasConfig THEN MapSet(configs, ToLowerCase(vendor), config) ELSE configs
  /\ lastOp' = [op |-> "registerProvider", vendor |-> vendor, result |-> NoResult]
  /\ nOps' = nOps + 1
  /\ UNCHANGED <<callVars, test, feedbackVars>>

\* A caller's sendEmail(payload), up to its first await.
SendEmailCall(payload) ==
  /\ batch.pc = "idle"
  /\ payloads' = <<payload>>
  /\ calls' = <<[StartSend(payload) EXCEPT !.handled = "pending"]>>
  /\ batch' = [batch EXCEPT !.pc = "single", !.k = 1]
  /\ UNCHANGED <<factoryVars, lastOp, nOps, opts, chunks, results, test, feedbackVars>>

\* The caller resumes with the settled call: it has returned, or thrown its error.
SendEmailSettle ==
  /\ batch.pc = "single"
  /\ Settled(calls[batch.k])
  /\ calls' = [calls EXCEPT ![batch.k].handled =
                              IF calls[batch.k].pc = "resolved" THEN "fulfilled" ELSE "rejected"]
  /\ batch' = [batch EXCEPT !.pc = IF calls[batch.k].pc = "resolved" THEN "returned" ELSE "thrown",
                            !.error = calls[batch.k].error]
  /\ UNCHANGED <<factoryVars, lastOp, nOps, payloads, opts, chunks, results, test, feedbackVars>>

\* A later sendEmail(payload) on the same EmailService, once the call before it
\* has returned or thrown: the calls made so far are kept.
SendEmailAgain(payload) ==
  /\ batch.pc \in {"returned", "thrown"}
  /\ Len(calls) < MaxPayloads
  /\ payloads' = Append(payloads, payload)
  /\ calls' = Append(calls, [StartSend(payload) EXCEPT !.handled = "pending"])
  /\ batch' = [batch EXCEPT !.pc = "single", !.k = Len(calls) + 1, !.error = NoError]
  /\ UNCHANGED <<factoryVars, lastOp, nOps, opts, chunks, results, test, feedbackVars>>

\* EmailService.initializeProviders: the configurations EmailConfig holds for
\* registered vendors; the environment and the configuration file decide which.
InitSend ==
  /\ providers = DefaultProviders
  /\ \E S \in SUBSET DOMAIN DefaultProviders : configs \in [S -> ProviderConfigs]
  /\ lastOp = NoOp
  /\ nOps = 0
  /\ payloads = <<>>
  /\ opts = [parallel |-> TRUE, continueOnError |-> TRUE, maxConcurrency |-> DefaultMaxConcurrency]
  /\ chunks = <<>>
  /\ calls = <<>>
  /\ results = NoResults
  /\ batch = NoBatch
  /\ test = NoTest
  /\ InitFeedback

\* Any call of sendEmail on the idle service.
SendEmail ==
  /\ batch.pc = "idle"
  /\ \E payload \in SendPayloads : SendEmailCall(payload)

NextSend ==
  \/ \E class \in ProviderClasses, hasConfig \in BOOLEAN, config \in ProviderConfigs :
       ServiceRegisterProvider(SendGrid, class, hasConfig, config)
  \/ SendEmail
  \/ RenderDone(1)
  \/ \E outcome \in {"data", "error", "nodata", "sent", "throws"} : TransportDone(1, outcome)
  \/ SendEmailSettle

SpecSend == InitSend /\ [][NextSend]_vars

\* Payloads of successive sendEmail calls: the same template through the same
\* vendor, spelled alike or not, and through another vendor.
CachePayloads ==
  {Payload(ana, hello, tp, v) : tp \in {welcomeHbs, brokenHbs}, v \in {resend, Resend, nodemailer}}

\* The first sendEmail call of the service.
SendEmailFirst ==
  /\ batch.pc = "idle"
  /\ \E payload \in CachePayloads : SendEmailCall(payload)

\* A sendEmail call after the first.
SendEmailLater ==
  /\ batch.pc \in {"returned", "thrown"}
  /\ \E payload \in CachePayloads : SendEmailAgain(payload)

NextCache ==
  \/ SendEmailFirst
  \/ SendEmailLater
  \/ \E i \in 1..MaxPayloads : RenderDone(i)
  \/ \E i \in 1..MaxPayloads, outcome \in {"data", "error", "nodata", "sent", "throws"} :
       TransportDone(i, outcome)
  \/ SendEmailSettle

\* Successive sendEmail calls on one EmailService.
SpecCache == InitSend /\ [][NextCache]_vars

\* The feedback workflow: submissions and status updates on one FeedbackService.
WithBody(rating, type, priority) ==
  Submission(Party(john, ana), Party(jane, bob), Body(hello, rating, type, priority),
             Context(shop, cart), Undefined)

\* The submissions: every type and priority rule, ratings in and out of range,
\* whole and not, and every required field or object missing or empty.
Submissions ==
  {WithBody(Num(5, 1), t, p) : t \in {positive, bug, negative},
                               p \in {Undefined, medium, high, critical}}
  \cup {WithBody(Num(5, 1), suggestion, low), WithBody(Num(5, 1), feature_request, urgent)}
  \cup {WithBody(r, positive, Undefined) :
          r \in {NoNumber, Num(0, 1), Num(0 - 1, 1), Num(1, 2), Num(1, 1), Num(5, 2),
                 Num(11, 2), Num(6, 1)}}
  \cup {WithBody(Num(5, 1), t, Undefined) : t \in {Undefined, <<>>, praise}}
  \cup {[goodSubmission EXCEPT !.submitter = x] :
          x \in {NoParty, Party(Undefined, ana), Party(<<>>, ana), Party(john, Undefined),
                 Party(john, <<>>), Party(john, noDomain)}}
  \cup {[goodSubmission EXCEPT !.recipient = x] :
          x \in {NoParty, Party(Undefined, bob), Party(<<>>, bob), Party(jane, Undefined),
                 Party(jane, <<>>), Party(jane, noDomain)}}
  \cup {[goodSubmission EXCEPT !.feedback = x] :
          x \in {NoBody, Body(Undefined, Num(5, 1), positive, Undefined),
                 Body(<<>>, Num(5, 1), positive, Undefined)}}
  \cup {[goodSubmission EXCEPT !.context = x] :
          x \in {NoContext, Context(Undefined, cart), Context(<<>>, cart),
                 Context(shop, Undefined), Context(shop, <<>>)}}
  \cup {[goodSubmission EXCEPT !.trackingId = clientTrackingId]}

\* The arguments of the status updates.
UpdateIds == {1, 2}
UpdateStatuses == Statuses \cup {"archived", ""}
ReviewerIds == {Undefined, <<>>, reviewer}

\* A record an earlier submission has left in the collection.
Stored(status, reviewedAt, reviewedBy, notified) ==
  [NewRecord(goodSubmission, clientTrackingId) EXCEPT
     !.status = status, !.reviewedAt = reviewedAt, !.reviewedBy = reviewedBy,
     !.submitterNotified = notified, !.recipientNotified = notified]

\* The collection when the service starts to serve: empty, or holding a record
\* in any status, reviewed or not.
StoredAtStart ==
  {<<>>}
  \cup {<<Stored(status, NoDate, Undefined, notified)>> :
          status \in Statuses, notified \in BOOLEAN}
  \cup {<<Stored("reviewed", 1, jane, TRUE)>>}

\* A FeedbackService on a collection, connected by an earlier initialize()
\* or not yet, and an EmailService whose Resend configuration the environment
\* decides.
InitFeedbackService ==
  /\ providers = DefaultProviders
  /\ \E S \in SUBSET {resend} : configs \in [S -> ProviderConfigs]
  /\ lastOp = NoOp
  /\ nOps = 0
  /\ payloads = <<>>
  /\ opts = [parallel |-> TRUE, continueOnError |-> TRUE, maxConcurrency |-> DefaultMaxConcurrency]
  /\ chunks = <<>>
  /\ calls = <<>>
  /\ results = NoResults
  /\ batch = NoBatch
  /\ test = NoTest
  /\ isConnected \in BOOLEAN
  /\ store \in StoredAtStart
  /\ sub = NoSub
  /\ upd = NoUpd
  /\ analytics = NoAnalytics
  /\ now = 1

\* A call of submitFeedback on the service.
SubmitFeedback ==
  /\ sub.pc = "idle"
  /\ \E payload \in Submissions : SubmitFeedbackCall(payload)

NextFeedback ==
  \/ SubmitFeedback
  \/ \E connected \in BOOLEAN : SubmitConnectDone(connected)
  \/ \E written \in BOOLEAN, random \in RandomParts : InsertDone(written, random)
  \/ \E i \in {1, 2} : RenderDone(i)
  \/ \E i \in {1, 2}, outcome \in {"data", "error", "nodata"} : TransportDone(i, outcome)
  \/ NotificationsSettled
  \/ \E written \in BOOLEAN : FlagSaveDone(written)

\* One submitFeedback call, from its validation to its response.
SpecFeedback == InitFeedbackService /\ [][NextFeedback]_vars

\* A call of updateFeedbackStatus on the service.
UpdateFeedbackStatus ==
  /\ upd.pc = "idle"
  /\ \E id \in UpdateIds, status \in UpdateStatuses, reviewerId \in ReviewerIds :
       UpdateFeedbackStatusCall(id, status, reviewerId)

\* A PATCH /:id/status request.
PatchStatusRequest ==
  /\ upd.pc = "idle"
  /\ \E id \in UpdateIds, status \in UpdateStatuses, reviewerId \in ReviewerIds :
       PatchStatus(id, status, reviewerId)

NextStatus ==
  \/ UpdateFeedbackStatus
  \/ PatchStatusRequest
  \/ \E connected \in BOOLEAN : UpdateConnectDone(connected)
  \/ FindByIdDone
  \/ \E written \in BOOLEAN : StatusSaveDone(written)

\* One status update, by the service's method or through the route.
SpecStatus == InitFeedbackService /\ [][NextStatus]_vars

\* The submissions of the workflow: one that leaves the tracking id to the
\* pre-save hook, and one that carries its own in metadata.customFields.
WorkflowSubmissions ==
  {goodSubmission, [goodSubmission EXCEPT !.trackingId = clientTrackingId]}

\* The status updates of the workflow.
WorkflowStatuses == {"reviewed", "resolved"}

\* A FeedbackService on an empty collection, with Resend configured.
InitWorkflow ==
  /\ providers = DefaultProviders
  /\ configs = (resend :> ResendConfig)
  /\ lastOp = NoOp
  /\ nOps = 0
  /\ payloads = <<>>
  /\ opts = [parallel |-> TRUE, continueOnError |-> TRUE, maxConcurrency |-> DefaultMaxConcurrency]
  /\ chunks = <<>>
  /\ calls = <<>>
  /\ results = NoResults
  /\ batch = NoBatch
  /\ test = NoTest
  /\ isConnected \in BOOLEAN
  /\ store = <<>>
  /\ sub = NoSub
  /\ upd = NoUpd
  /\ analytics = NoAnalytics
  /\ now = 1

\* A call of submitFeedback once the call before it has returned.
SubmitNext ==
  /\ nOps < MaxCalls
  /\ \E payload \in WorkflowSubmissions : SubmitFeedbackCall(payload)

\* A call of updateFeedbackStatus once the call before it has returned.
UpdateNext ==
  /\ nOps < MaxCalls
  /\ \E id \in UpdateIds, status \in WorkflowStatuses :
       UpdateFeedbackStatusCall(id, status, reviewer)

NextWorkflow ==
  \/ SubmitNext
  \/ \E connected \in BOOLEAN : SubmitConnectDone(connected)
  \/ \E written \in BOOLEAN, random \in RandomParts : InsertDone(written, random)
  \/ \E i \in {1, 2} : RenderDone(i)
  \/ \E i \in {1, 2}, outcome \in {"data", "error"} : TransportDone(i, outcome)
  \/ NotificationsSettled
  \/ \E written \in BOOLEAN : FlagSaveDone(written)
  \/ UpdateNext
  \/ \E connected \in BOOLEAN : UpdateConnectDone(connected)
  \/ FindByIdDone
  \/ \E written \in BOOLEAN : StatusSaveDone(written)

\* Submissions and status updates on one service and one collection: a
\* submitFeedback call and an updateFeedbackStatus call run side by side, each
\* followed by the next of its kind.
SpecWorkflow == InitWorkflow /\ [][NextWorkflow]_vars

\* The applications of the stored records, and one that has none.
blog == <<"b", "l", "o", "g">>
wiki == <<"w", "i", "k", "i">>

\* The records of the collection getAnalytics reads: every feedback type in
\* two applications, with a whole rating in one and a fractional in the other.
AnalyticsRecords ==
  {NewRecord([WithBody(Num(4, 1), type, Undefined) EXCEPT !.context = Context(shop, cart)],
             clientTrackingId) : type \in FeedbackTypes}
  \cup {NewRecord([WithBody(Num(5, 2), type, Undefined) EXCEPT !.context = Context(blog, cart)],
                  clientTrackingId) : type \in FeedbackTypes}

\* The application filters: none, the empty string, an application with
\* records and one without.
ApplicationFilters == {Undefined, <<>>, shop, blog, wiki}

\* A FeedbackService on a collection of up to MaxRecords records.
InitAnalytics ==
  /\ providers = DefaultProviders
  /\ configs = (resend :> ResendConfig)
  /\ lastOp = NoOp
  /\ nOps = 0
  /\ payloads = <<>>
  /\ opts = [parallel |-> TRUE, continueOnError |-> TRUE, maxConcurrency |-> DefaultMaxConcurrency]
  /\ chunks = <<>>
  /\ calls = <<>>
  /\ results = NoResults
  /\ batch = NoBatch
  /\ test = NoTest
  /\ isConnected \in BOOLEAN
  /\ store \in SeqsOf(AnalyticsRecords, MaxRecords)
  /\ sub = NoSub
  /\ upd = NoUpd
  /\ analytics = NoAnalytics
  /\ now = 1

\* A call of getAnalytics on the service.
GetAnalytics ==
  /\ analytics.pc = "idle"
  /\ \E applicationName \in ApplicationFilters : GetAnalyticsCall(applicationName)

NextAnalytics ==
  \/ GetAnalytics
  \/ \E connected \in BOOLEAN : AnalyticsConnectDone(connected)
  \/ \E answered \in BOOLEAN : AggregateDone(answered)

\* One getAnalytics call on a collection.
SpecAnalytics == InitAnalytics /\ [][NextAnalytics]_vars

\* The numbers a caller passes as maxConcurrency: negative, zero, positive.
AnyConcurrency == (0 - 1)..MaxConcurrency

\* A parallel sendBatchEmails call with any maxConcurrency.
SendBatchEmailsAny ==
  \E ps \in SeqsOf(BatchPayloads, MaxPayloads), continueOnError \in BOOLEAN,
     maxConcurrency \in AnyConcurrency :
    CallSendBatchEmailsAny(ps, continueOnError, maxConcurrency)

\* A sequential sendBatchEmails call: maxConcurrency is not looked at.
SendBatchEmailsSequential ==
  \E ps \in SeqsOf(BatchPayloads, MaxPayloads), continueOnError \in BOOLEAN,
     maxConcurrency \in AnyConcurrency :
    CallSendBatchEmails(ps, OptionNames,
                        [parallel |-> FALSE, continueOnError |-> continueOnError,
                         maxConcurrency |-> maxConcurrency])

NextChunking ==
  \/ SendBatchEmailsAny
  \/ SendBatchEmailsSequential
  \/ ChunkArrayStep
  \/ ChunkArrayReturn
  \/ \E i \in 1..MaxPayloads : RenderDone(i)
  \/ \E i \in 1..MaxPayloads, outcome \in {"data", "error", "nodata", "sent", "throws"} :
       TransportDone(i, outcome)
  \/ \E i \in 1..MaxPayloads : ParSettle(i)
  \/ NextChunk
  \/ BatchReject
  \/ \E i \in 1..MaxPayloads : SeqSettle(i)

\* One sendBatchEmails call with chunkArray run step by step, in which every
\* step that can be taken is taken in the end: each send settles, each
\* callback resumes.
SpecChunking == Init /\ [][NextChunking]_vars /\ WF_vars(NextChunking)

\* ----------------------------------------------------------------- claims
Calls == 1..Len(calls)
Started(i) == calls[i].pc # "new"
InFlightCount == Cardinality({i \in Calls : InFlight(calls[i])})
\* The wave of the i-th payload: consecutive groups of maxConcurrency positions.
WaveOf(i) == ((i - 1) \div opts.maxConcurrency) + 1

\* C1: a batch run with continueOnError=true returns successful + failed = N and
\* errors.length = failed, in parallel and in sequential mode, whatever the
\* sends' outcomes and the order in which they complete.
C1_BatchCounts ==
  (batch.pc = "returned" /\ opts.continueOnError) =>
    /\ results.successful + results.failed = Len(payloads)
    /\ Len(results.errors) = results.failed

C1_Witness ==
  /\ batch.pc = "returned"
  /\ opts.continueOnError
  /\ Len(payloads) = MaxPayloads
  /\ results.successful >= 1
  /\ results.failed >= 1

\* C2: in parallel mode at most maxConcurrency sendEmail calls (5 when the
\* option is omitted) are started and not yet settled, at every moment of the run.
C2_InFlightBound ==
  (batch.pc # "idle" /\ opts.parallel) => InFlightCount <= opts.maxConcurrency

C2_Witness ==
  /\ opts.parallel
  /\ opts.maxConcurrency = 2
  /\ Len(payloads) = 3
  /\ InFlightCount = 2

\* C3: in parallel mode the chunks are the consecutive groups of maxConcurrency
\* payloads in input order, and no send of a chunk is started before every send
\* of the chunk before it has settled.
C3_ChunkByChunk ==
  (batch.pc # "idle" /\ opts.parallel) =>
    /\ \A k \in 1..Len(chunks) :
         chunks[k] = [n \in 1..Min(opts.maxConcurrency,
                                   Len(payloads) - (k - 1) * opts.maxConcurrency)
                        |-> (k - 1) * opts.maxConcurrency + n]
    /\ Len(chunks) * opts.maxConcurrency >= Len(payloads)
    /\ \A i \in Calls, j \in Calls :
         (WaveOf(j) > WaveOf(i) /\ Started(j)) => Settled(calls[i])

C3_Witness ==
  /\ opts.parallel
  /\ opts.maxConcurrency = 2
  /\ Len(payloads) = 3
  /\ InFlight(calls[3])
  /\ calls[1].pc = "rejected"
  /\ calls[2].pc = "resolved"

\* C4: with continueOnError=false, once a send has failed the run does not
\* return a result (the failure is what it throws), and no payload of a later
\* chunk (parallel) or of a later position (sequential) is ever dispatched.
C4_FailFast ==
  (batch.pc # "idle" /\ ~opts.continueOnError) =>
    /\ \A i \in Calls :
         calls[i].pc = "rejected" =>
           /\ batch.pc # "returned"
           /\ \A j \in Calls :
                (IF opts.parallel THEN WaveOf(j) > WaveOf(i) ELSE j > i) => ~Started(j)
    /\ batch.pc = "thrown" =>
         /\ results.failed >= 1
         /\ \E i \in Calls : calls[i].pc = "rejected" /\ batch.error = calls[i].error

C4_Witness ==
  /\ batch.pc = "thrown"
  /\ ~opts.continueOnError
  /\ Len(payloads) = 3
  /\ calls[1].pc = "rejected"
  /\ ~Started(3)

C6_ValidAndMalformed ==
  \A good \in 1..2 :
    LET bad == 3 - good IN
    (/\ batch.pc = "returned"
     /\ opts.continueOnError
     /\ opts.maxConcurrency = 1
     /\ Len(payloads) = 2
     /\ payloads[good] = goodPayload
     /\ payloads[bad] = noSubjectPayload) =>
      /\ calls[bad].pc = "rejected"
      /\ calls[bad].transportCalls = 0
      /\ calls[bad].instance = NoInstance
      /\ calls[good].transportCalls = 1
      /\ results.failed >= 1
      /\ \E e \in Range(results.errors) : e.of = bad
      /\ calls[good].pc = "resolved" =>
           /\ results.successful = 1
           /\ results.failed = 1
           /\ results.errors = <<[of |-> bad, message |-> calls[bad].error]>>

C6_Witness ==
  /\ batch.pc = "returned"
  /\ opts.continueOnError
  /\ opts.maxConcurrency = 1
  /\ payloads = <<noSubjectPayload, goodPayload>>
  /\ results.successful = 1
  /\ results.failed = 1
  /\ calls[2].pc = "resolved"

MissingOrEmpty(field) == field = Undefined \/ field = <<>>

\* C7: sendEmail rejects a payload whose destination, subject, template path or
\* vendor is missing or empty, or whose vendor is not registered, and has then
\* constructed no provider, read no template and called no transport.
C7_RejectedBeforeSideEffects ==
  (batch.pc \in {"single", "returned", "thrown"}) =>
    LET payload == payloads[1] IN
    (\/ MissingOrEmpty(payload.to)
     \/ MissingOrEmpty(payload.subject)
     \/ MissingOrEmpty(payload.templatePath)
     \/ MissingOrEmpty(payload.vendor)
     \/ ~IsProviderRegistered(payload.vendor)) =>
      /\ calls[1].pc = "rejected"
      /\ calls[1].instance = NoInstance
      /\ calls[1].fileReads = 0
      /\ calls[1].transportCalls = 0
      /\ batch.pc # "returned"

C7_Witness ==
  /\ batch.pc = "thrown"
  /\ payloads[1].templatePath = <<>>
  /\ CreateProvider(payloads[1].vendor).ok
  /\ calls[1].pc = "rejected"

TransportFailures ==
  {"Resend API error", "Resend API returned no data in response", "Transport error"}

\* C8: a sendEmail call makes at most one transport call; it makes none when it
\* fails at validation, at provider resolution or at template rendering; it
\* succeeds only having made one; a failure reaches the caller as one error
\* (sendEmail's own, around the cause); and no step of the call changes the
\* registered providers or their configurations.
C8_AllOrNothing ==
  /\ [](batch.pc \in {"single", "returned", "thrown"} =>
         LET call == calls[1]
             payload == payloads[1] IN
         /\ call.transportCalls <= 1
         /\ ValidatePayload(payload) # NoError => call.transportCalls = 0
         /\ call.instance = NoInstance => (call.transportCalls = 0 /\ call.pc = "rejected")
         /\ (payload.templatePath \notin DOMAIN TemplateFiles
               \/ ~TemplateFiles[payload.templatePath]) =>
              (call.transportCalls = 0 /\ call.pc \in {"rendering", "rejected"})
         /\ call.pc = "resolved" => (call.transportCalls = 1 /\ call.error = NoError)
         /\ call.pc = "rejected" =>
              /\ Head(call.error) = "Email sending failed"
              /\ call.transportCalls = 1 <=> call.error[Len(call.error)] \in TransportFailures
         /\ batch.pc = "thrown" => (call.pc = "rejected" /\ batch.error = call.error)
         /\ batch.pc = "returned" => (call.pc = "resolved" /\ batch.error = NoError))
  /\ [][calls' # calls => (providers' = providers /\ configs' = configs)]_vars

C8_Witness ==
  /\ batch.pc = "thrown"
  /\ payloads[1].templatePath = missingHbs
  /\ calls[1].instance.class = "ResendProvider"
  /\ calls[1].fileReads = 1
  /\ calls[1].transportCalls = 0

SameLetter(c, d) ==
  \/ c = d
  \/ \E n \in 1..Len(UpperChars) : {c, d} = {UpperChars[n], LowerChars[n]}

\* Two names that differ at most in letter case.
SameIgnoringCase(v, w) ==
  /\ Len(v) = Len(w)
  /\ \A n \in 1..Len(v) : SameLetter(v[n], w[n])

\* What a configuration must hold for the constructor of a class to accept it.
ConfigAccepted(class, config) ==
  IF class = "ResendProvider"
    THEN config.apiKey /\ config.fromEmail
    ELSE config.fromEmail /\ config.transport # "none"

\* C9 as claimed: createProvider(v) fails with the unsupported-vendor error
\* when v is not registered, with the missing-configuration error when v is
\* registered without a configuration, and returns a new instance built from
\* the stored configuration otherwise.
C9_CreateProviderOutcome ==
  lastOp.op = "createProvider" =>
    LET key == ToLowerCase(lastOp.vendor)
        result == lastOp.result IN
    IF key \notin DOMAIN providers
      THEN ~result.ok /\ result.error = <<"Unsupported email provider">>
    ELSE IF key \notin DOMAIN configs
      THEN ~result.ok /\ result.error = <<"Configuration not found for provider">>
    ELSE /\ result.ok
         /\ result.instance.class = providers[key]
         /\ result.instance.config = configs[key]

\* C9 as amended: as claimed for the two errors; otherwise createProvider calls
\* the registered class's constructor on the stored configuration, and returns
\* the new instance built from it when the constructor accepts the
\* configuration, and fails with the constructor's own error when it does not.
C9_CreateProviderOrConstructorError ==
  lastOp.op = "createProvider" =>
    LET key == ToLowerCase(lastOp.vendor)
        result == lastOp.result IN
    IF key \notin DOMAIN providers
      THEN ~result.ok /\ result.error = <<"Unsupported email provider">>
    ELSE IF key \notin DOMAIN configs
      THEN ~result.ok /\ result.error = <<"Configuration not found for provider">>
    ELSE IF ConfigAccepted(providers[key], configs[key])
      THEN /\ result.ok
           /\ result.instance.class = providers[key]
           /\ result.instance.config = configs[key]
      ELSE /\ ~result.ok
           /\ result.error \notin {NoError, <<"Unsupported email provider">>,
                                   <<"Configuration not found for provider">>}

C9_Witness ==
  /\ lastOp.op = "createProvider"
  /\ lastOp.vendor = SendGrid
  /\ lastOp.result.ok
  /\ lastOp.result.instance.config = configs[sendgrid]

\* C10: two vendor names that differ only in letter case are one vendor to the
\* factory and to sendEmail's vendor check: after registerProvider, after
\* setProviderConfig and after unregisterProvider on one of them,
\* isProviderRegistered, createProvider and validatePayload answer for the
\* other as for the one, and in every state they answer the same for both.
C10_CaseInsensitive ==
  \A v \in VendorNames, w \in VendorNames :
    SameIgnoringCase(v, w) =>
      /\ IsProviderRegistered(v) = IsProviderRegistered(w)
      /\ CreateProvider(v) = CreateProvider(w)
      /\ ValidatePayload(Payload(ana, hello, welcomeHbs, v))
           = ValidatePayload(Payload(ana, hello, welcomeHbs, w))
      /\ (lastOp.op = "registerProvider" /\ lastOp.vendor = v) =>
           /\ IsProviderRegistered(w)
           /\ ValidatePayload(Payload(ana, hello, welcomeHbs, w)) = NoError
           /\ CreateProvider(w).error # <<"Unsupported email provider">>
      /\ (lastOp.op = "setProviderConfig" /\ lastOp.vendor = v /\ IsProviderRegistered(v)) =>
           CreateProvider(w).error # <<"Configuration not found for provider">>
      /\ (lastOp.op = "unregisterProvider" /\ lastOp.vendor = v) =>
           /\ ~IsProviderRegistered(w)
           /\ ValidatePayload(Payload(ana, hello, welcomeHbs, w)) = <<"Unsupported email vendor">>
           /\ CreateProvider(w).error = <<"Unsupported email provider">>
      /\ (lastOp.op = "createProvider" /\ lastOp.vendor = v) =>
           lastOp.result = CreateProvider(w)

\* A vendor registered under one spelling, configured under another, created
\* under the first.
C10_Witness ==
  /\ lastOp.op = "registerProvider"
  /\ lastOp.vendor = SendGrid
  /\ IsProviderRegistered(sendgrid)
  /\ CreateProvider(sendgrid).ok
  /\ CreateProvider(SendGrid).ok

\* C11: testConfiguration(vendor) never raises and returns a boolean: false when
\* the vendor is unregistered, has no configuration or its constructor rejects
\* the configuration; the outcome of verifyConnection when the provider built
\* has one; true when the provider is built and has no verifyConnection.
C11_TestConfiguration ==
  /\ test.pc # "thrown"
  /\ test.pc = "returned" => test.result \in BOOLEAN
  /\ lastOp.op = "testConfiguration" =>
       LET key == ToLowerCase(lastOp.vendor) IN
       IF \/ key \notin DOMAIN providers
          \/ key \notin DOMAIN configs
          \/ ~ConfigAccepted(providers[key], configs[key])
         THEN test.pc = "returned" /\ test.result = FALSE
       ELSE IF providers[key] = "NodemailerProvider"
         THEN \/ test.pc = "verifying"
              \/ /\ test.pc = "returned"
                 /\ test.verify \in VerifyOutcomes
                 /\ test.result = (test.verify = "verified")
       ELSE test.pc = "returned" /\ test.result = TRUE

\* A provider whose constructor rejects its configuration has been tested, and
\* so has one whose connection check failed.
C11_Witness ==
  /\ lastOp.op = "testConfiguration"
  /\ test.pc = "returned"
  /\ ~test.result
  /\ LET key == ToLowerCase(lastOp.vendor) IN
       /\ key \in DOMAIN providers
       /\ key \in DOMAIN configs
       /\ \/ ~ConfigAccepted(providers[key], configs[key])
          \/ test.verify = "throws"

\* A submission that is valid: every required object and field is there and
\* not empty, both addresses are well formed, the rating lies in [1,5], the
\* type is one of the five and the priority, when given, one of the four.
ValidSubmission(p) ==
  /\ p.submitter.present /\ p.recipient.present /\ p.feedback.present /\ p.context.present
  /\ \A x \in {p.submitter.name, p.submitter.email, p.recipient.name, p.recipient.email,
                p.feedback.content, p.context.applicationName, p.context.featureName} :
       x \notin {Undefined, <<>>}
  /\ IsValidEmail(p.submitter.email) /\ IsValidEmail(p.recipient.email)
  /\ p.feedback.rating.d > 0
  /\ p.feedback.rating.n >= p.feedback.rating.d
  /\ p.feedback.rating.n <= 5 * p.feedback.rating.d
  /\ p.feedback.type \in {positive, negative, suggestion, bug, feature_request}
  /\ p.feedback.priority \in {Undefined, low, medium, high, critical}

\* The store failed the call: the connection or a write.
StoreFailed(response) ==
  /\ ~response.success
  /\ response.error \in {<<"Failed to initialize FeedbackService">>, <<"MongoError">>}

\* C12: a valid submission whose store works persists exactly one new record:
\* the only write that adds a record is the one save of submitFeedback, the
\* record it adds has status new, both delivery flags false and a non-empty
\* tracking id, the response carries that tracking id, and a valid submission
\* ends unsuccessfully only when the store has failed it.
C12_OneNewRecord ==
  /\ [](sub.pc = "returned" /\ ValidSubmission(sub.payload) =>
          IF sub.response.success
            THEN /\ sub.id \in 1..Len(store)
                 /\ sub.response.feedbackId = sub.id
                 /\ sub.response.trackingId = store[sub.id].trackingId
                 /\ sub.response.trackingId \notin {Undefined, <<>>}
            ELSE StoreFailed(sub.response))
  /\ [][/\ (Len(store') # Len(store)) =>
              (/\ sub.pc = "saving" /\ sub.id = 0
               /\ ValidSubmission(sub.payload)
               /\ Len(store') = Len(store) + 1
               /\ SubSeq(store', 1, Len(store)) = store
               /\ sub'.id = Len(store')
               /\ LET record == store'[Len(store')] IN
                    /\ record.status = "new"
                    /\ ~record.submitterNotified /\ ~record.recipientNotified
                    /\ record.trackingId \notin {Undefined, <<>>}
                    /\ sub'.trackingId = record.trackingId)
        /\ (sub.pc = "saving" /\ sub'.pc # "saving" /\ Len(store') = Len(store)) =>
              (sub'.pc = "returned" /\ ~sub'.response.success)]_vars

\* A valid submission has been answered successfully on a collection that
\* already held a record.
C12_Witness ==
  /\ sub.pc = "returned"
  /\ ValidSubmission(sub.payload)
  /\ sub.response.success
  /\ sub.id = 2
  /\ Len(store) = 2
  /\ store[2].trackingId = sub.response.trackingId
  /\ sub.payload.trackingId = Undefined

\* A submission that lacks a required field or object, or whose rating is a
\* number outside [1,5], or whose type is none of the five.
Lacking(p) ==
  \/ ~p.submitter.present \/ ~p.recipient.present \/ ~p.feedback.present \/ ~p.context.present
  \/ \E x \in {p.submitter.name, p.submitter.email, p.recipient.name, p.recipient.email,
                p.feedback.content, p.context.applicationName, p.context.featureName} :
       x \in {Undefined, <<>>}
  \/ (p.feedback.rating.d > 0 /\ p.feedback.rating.n < p.feedback.rating.d)
  \/ (p.feedback.rating.d > 0 /\ p.feedback.rating.n > 5 * p.feedback.rating.d)
  \/ p.feedback.type \notin {positive, negative, suggestion, bug, feature_request}

\* C13: a submission lacking a required field or object, with a rating outside
\* [1,5] or a type outside the five is answered with success=false at once:
\* the call never waits on the store, no record is written and no sendEmail
\* call is made for it.
C13_RejectedUntouched ==
  /\ [](sub.pc # "idle" /\ Lacking(sub.payload) =>
          /\ sub.pc = "returned"
          /\ ~sub.response.success
          /\ sub.id = 0
          /\ sub.dispatches = 0)
  /\ [][(sub' # sub /\ Lacking(sub'.payload)) =>
          (store' = store /\ calls' = calls /\ payloads' = payloads)]_vars

\* A submission without its context object has been refused.
C13_Witness ==
  /\ sub.pc = "returned"
  /\ ~sub.payload.context.present
  /\ sub.payload.feedback.present
  /\ ~sub.response.success
  /\ Len(store) = 1

\* C14: once the record of a submission is stored and both sends have been
\* made, whatever each send does, the call answers success=true with emailsSent
\* equal to the two outcomes unless a later write to the store fails, and the
\* record stays in the collection in every case.
C14_IndependentNotifications ==
  /\ [](sub.dispatches = 2 =>
          /\ sub.id \in 1..Len(store)
          /\ store[sub.id].trackingId = sub.trackingId
          /\ sub.pc = "returned" =>
               /\ sub.response.success \/ StoreFailed(sub.response)
               /\ sub.response.success =>
                    /\ sub.response.submitterNotified = (calls[1].pc = "resolved")
                    /\ sub.response.recipientNotified = (calls[2].pc = "resolved"))
  /\ [][/\ Len(store') >= Len(store)
        /\ \A id \in 1..Len(store) : store'[id].trackingId = store[id].trackingId]_vars

\* The confirmation was delivered, the notification was refused by the
\* transport, and the call has answered success.
C14_Witness ==
  /\ sub.pc = "returned"
  /\ sub.response.success
  /\ calls[1].pc = "resolved"
  /\ calls[2].pc = "rejected"
  /\ calls[2].transportCalls = 1
  /\ sub.response.submitterNotified
  /\ ~sub.response.recipientNotified
  /\ sub.id \in 1..Len(store)

\* C15: when submitFeedback has answered success, the stored record's
\* submitterNotified and recipientNotified are true exactly for the sends that
\* succeeded; the flags of a stored record are written only by the call that
\* created it, at most once, and only after both of its sends have settled.
C15_FlagsWrittenOnce ==
  /\ [](sub.pc = "returned" /\ sub.response.success =>
          /\ store[sub.id].submitterNotified = (calls[1].pc = "resolved")
          /\ store[sub.id].recipientNotified = (calls[2].pc = "resolved"))
  /\ [](sub.flagWrites <= 1)
  /\ [][\A id \in 1..Len(store) :
          (\/ store'[id].submitterNotified # store[id].submitterNotified
           \/ store'[id].recipientNotified # store[id].recipientNotified) =>
             (/\ id = sub.id
              /\ sub.flagWrites = 0 /\ sub'.flagWrites = 1
              /\ Settled(calls[1]) /\ Settled(calls[2]))]_vars

\* Only the notification to the recipient was delivered, and the stored flags
\* say so.
C15_Witness ==
  /\ sub.pc = "returned"
  /\ sub.response.success
  /\ sub.flagWrites = 1
  /\ ~store[sub.id].submitterNotified
  /\ store[sub.id].recipientNotified
  /\ calls[1].pc = "rejected"

\* C16: the estimatedResponseTime of a successful response follows the first
\* rule that matches: priority critical '2-4 hours', priority high '24-48
\* hours', type bug '2-3 business days', type negative '1-2 business days',
\* anything else '3-5 business days'.
C16_ResponseTime ==
  sub.pc = "returned" /\ sub.response.success =>
    LET type == sub.payload.feedback.type
        priority == sub.payload.feedback.priority
        label == sub.response.estimatedResponseTime IN
    /\ priority = critical => label = "2-4 hours"
    /\ priority = high => label = "24-48 hours"
    /\ (priority \notin {critical, high} /\ type = bug) => label = "2-3 business days"
    /\ (priority \notin {critical, high} /\ type = negative) => label = "1-2 business days"
    /\ (priority \notin {critical, high} /\ type \notin {bug, negative}) =>
         label = "3-5 business days"

\* A critical bug report has been answered with the hours label.
C16_Witness ==
  /\ sub.pc = "returned"
  /\ sub.response.success
  /\ sub.payload.feedback.type = bug
  /\ sub.payload.feedback.priority = critical
  /\ sub.response.estimatedResponseTime = "2-4 hours"

\* The five statuses of a feedback record.
Recognized(status) == status \in {"new", "reviewed", "in_progress", "resolved", "dismissed"}

\* C17: a status update with a status outside the five ends in a validation
\* failure and writes nothing: the route answers 400 INVALID_STATUS before it
\* calls the service, and updateFeedbackStatus called on a stored record is
\* rejected by the schema's validation when it saves (it fails earlier only
\* when the connection does, and returns null when no record has the id).
C17_InvalidStatusRejected ==
  /\ [](upd.pc = "done" /\ ~Recognized(upd.status) =>
          IF upd.via = "route"
            THEN upd.outcome = "INVALID_STATUS" /\ upd.http = 400
          ELSE IF upd.id \in 1..Len(store)
            THEN upd.outcome \in {"ValidationError", "ConnectError"}
          ELSE upd.outcome \in {"null", "ConnectError"})
  /\ [][(upd' # upd /\ ~Recognized(upd'.status)) => store' = store]_vars

\* updateFeedbackStatus was called with 'archived' and a reviewer on a resolved
\* record, and its save has been rejected.
C17_Witness ==
  /\ upd.pc = "done"
  /\ upd.via = "service"
  /\ upd.status = "archived"
  /\ upd.reviewerId = reviewer
  /\ upd.outcome = "ValidationError"
  /\ store[upd.id].status = "resolved"
  /\ store[upd.id].reviewedAt = NoDate

\* C18: a status update with one of the five statuses writes that status on
\* the record with the given id, whatever its status was, and nothing else but
\* reviewedAt and reviewedBy, which it writes only when the status is reviewed
\* and a reviewer id is given; with an id no record has it returns null and
\* the collection stays as it was.
C18_StatusUpdateFrame ==
  /\ [](upd.pc = "done" /\ Recognized(upd.status) =>
          IF upd.id \in 1..Len(store)
            THEN /\ upd.outcome \in {"updated", "SaveError", "ConnectError"}
                 /\ upd.outcome = "updated" => store[upd.id].status = upd.status
            ELSE upd.outcome \in {"null", "ConnectError"})
  /\ [][store' # store =>
          (/\ upd.pc = "saving" /\ upd'.outcome = "updated"
           /\ Recognized(upd.status)
           /\ upd.id \in 1..Len(store)
           /\ Len(store') = Len(store)
           /\ \A id \in 1..Len(store) : id # upd.id => store'[id] = store[id]
           /\ LET before == store[upd.id]
                  after == store'[upd.id] IN
               /\ after.status = upd.status
               /\ IF upd.status = "reviewed" /\ upd.reviewerId \notin {Undefined, <<>>}
                    THEN after.reviewedBy = upd.reviewerId /\ after.reviewedAt \in {now, now'}
                    ELSE after.reviewedBy = before.reviewedBy
                         /\ after.reviewedAt = before.reviewedAt
               /\ after = [before EXCEPT !.status = after.status,
                                          !.reviewedAt = after.reviewedAt,
                                          !.reviewedBy = after.reviewedBy])]_vars

\* A record has been set to reviewed by a reviewer.
C18_Witness ==
  /\ upd.pc = "done"
  /\ upd.outcome = "updated"
  /\ upd.status = "reviewed"
  /\ upd.reviewerId = reviewer
  /\ store[upd.id].status = "reviewed"
  /\ store[upd.id].reviewedBy = reviewer
  /\ store[upd.id].reviewedAt # NoDate

\* The file reads made so far for a template by sends through a vendor whose
\* provider caches templates.
RECURSIVE CachedReads(_, _, _)
CachedReads(k, templatePath, vendorKey) ==
  IF k = 0 THEN 0
  ELSE CachedReads(k - 1, templatePath, vendorKey)
       + (IF /\ payloads[k].templatePath = templatePath
             /\ ToLowerCase(payloads[k].vendor) = vendorKey
             /\ calls[k].instance.cacheEnabled
            THEN calls[k].fileReads ELSE 0)

\* C19 as claimed: with caching enabled only the first render of a path reads
\* its file; once a sendEmail call has compiled a template, no later sendEmail
\* call for the same vendor reads that file again.
C19_CachedForProcess ==
  \A i \in 1..Len(calls), j \in 1..Len(calls) :
    (/\ i < j
     /\ payloads[i].templatePath = payloads[j].templatePath
     /\ ToLowerCase(payloads[i].vendor) = ToLowerCase(payloads[j].vendor)
     /\ calls[i].instance.cacheEnabled /\ calls[j].instance.cacheEnabled
     /\ calls[i].transportCalls = 1) =>
       /\ calls[j].fileReads = 0
       /\ CachedReads(Len(calls), payloads[i].templatePath,
                      ToLowerCase(payloads[i].vendor)) <= 1

\* A rating that is a whole number from 1 to 5.
WholeRating(rating) == rating.d = 1 /\ rating.n \in 1..5

\* C20 as claimed: a rating is accepted only when it is a whole number from 1
\* to 5; a submission with any other rating (0, negative, above 5, missing, or
\* not whole such as 2.5) is answered with success=false and leaves no record.
C20_IntegerRating ==
  (sub.pc # "idle" /\ ~WholeRating(sub.payload.feedback.rating)) =>
    /\ sub.id = 0
    /\ sub.pc = "returned" => ~sub.response.success

\* C21: every persisted feedback record has a tracking id, and no two
\* persisted records share one, for any sequence of submissions, those whose
\* metadata.customFields already holds a trackingId included.
C21_UniqueTrackingIds ==
  \A i \in 1..Len(store) :
    /\ Truthy(store[i].trackingId)
    /\ \A j \in 1..Len(store) : i # j => store[i].trackingId # store[j].trackingId

\* The stored records the filter of the running getAnalytics call matches.
Matching ==
  {i \in 1..Len(store) :
     Truthy(analytics.applicationName) =>
       store[i].applicationName = analytics.applicationName}

\* C22: getAnalytics never fails because of an empty match: when no stored
\* record matches the optional application filter it returns totalFeedbacks 0,
\* averageRating 0 and all five per-type counts 0. The call throws only when
\* the connection or the aggregation itself fails.
C22_EmptyMatchZeroed ==
  /\ analytics.pc = "thrown" =>
       analytics.error \in {<<"Failed to initialize FeedbackService">>, <<"MongoError">>}
  /\ (analytics.pc = "returned" /\ Matching = {}) =>
       /\ analytics.result.totalFeedbacks = 0
       /\ analytics.result.averageRating.d # 0
       /\ analytics.result.averageRating.n = 0
       /\ analytics.result.positiveCount = 0
       /\ analytics.result.negativeCount = 0
       /\ analytics.result.suggestionCount = 0
       /\ analytics.result.bugCount = 0
       /\ analytics.result.featureRequestCount = 0

\* getAnalytics has returned for an application that has no record, in a
\* collection that holds records of other applications.
C22_Witness ==
  /\ analytics.pc = "returned"
  /\ analytics.applicationName = wiki
  /\ Len(store) > 0
  /\ Matching = {}
  /\ analytics.result = ZeroAnalytics

\* C30: in every result of getAnalytics, for any stored records and any
\* application filter, totalFeedbacks equals positiveCount + negativeCount +
\* suggestionCount + bugCount + featureRequestCount and equals the number of
\* stored records the filter matches.
C30_CountsAddUp ==
  analytics.pc = "returned" =>
    /\ analytics.result.totalFeedbacks =
         analytics.result.positiveCount + analytics.result.negativeCount
         + analytics.result.suggestionCount + analytics.result.bugCount
         + analytics.result.featureRequestCount
    /\ analytics.result.totalFeedbacks = Cardinality(Matching)

\* getAnalytics has returned for an application filter that matches some of
\* the records and not others, feature requests and another type among them.
C30_Witness ==
  /\ analytics.pc = "returned"
  /\ analytics.applicationName = shop
  /\ Cardinality(Matching) = 2
  /\ Len(store) = 3
  /\ analytics.result.totalFeedbacks = 2
  /\ analytics.result.featureRequestCount = 1
  /\ analytics.result.bugCount = 1

\* The causes submitFeedback can fail from: validatePayload (its own error
\* or the TypeError of a payload without feedback), initialize(), the insert,
\* and the save of the flags.
SubmitFailures ==
  {<<"Failed to initialize FeedbackService">>, <<"MongoError">>, <<"ValidationError">>,
   <<"TypeError: Cannot read properties of undefined (reading 'type')">>}

\* C23: submitFeedback never raises to its caller: for every input and every
\* failure of validation, database connection, persistence or notification
\* dispatch, the call ends with a structured result that carries a boolean
\* success flag and a message; an unsuccessful one names its cause.
C23_AlwaysStructuredResult ==
  sub.pc = "returned" =>
    /\ sub.response.success \in BOOLEAN
    /\ sub.response.message # ""
    /\ sub.response.success <=> (sub.response.message = "Feedback submitted successfully")
    /\ ~sub.response.success =>
         /\ sub.response.message = "Failed to submit feedback"
         /\ \/ sub.response.error \in SubmitFailures
            \/ /\ Len(sub.response.error) > 1
               /\ sub.response.error[1] = "Validation failed"

\* submitFeedback has returned an unsuccessful result for a payload without a
\* feedback object, whose validation ends in a TypeError and not in the
\* error validatePayload builds.
C23_Witness ==
  /\ sub.pc = "returned"
  /\ ~sub.payload.feedback.present
  /\ ~sub.response.success
  /\ sub.response.message = "Failed to submit feedback"
  /\ sub.response.error \in SubmitFailures

\* C24: in sequential mode (parallel=false) sendBatchEmails has at most one
\* send in flight, starts the sends in input order, starts send i+1 only after
\* send i has settled and been counted, and returns the errors list in the
\* input order of the failing payloads.
C24_SequentialOrder ==
  (batch.pc # "idle" /\ ~opts.parallel) =>
    /\ InFlightCount <= 1
    /\ \A i \in Calls, j \in Calls :
         (i < j /\ Started(j)) => (Settled(calls[i]) /\ calls[i].handled = "fulfilled")
    /\ \A a \in 1..Len(results.errors), b \in 1..Len(results.errors) :
         a < b => results.errors[a].of < results.errors[b].of
    /\ \A a \in 1..Len(results.errors) :
         /\ calls[results.errors[a].of].pc = "rejected"
         /\ results.errors[a].message = calls[results.errors[a].of].error
    /\ batch.pc = "returned" =>
         {results.errors[a].of : a \in 1..Len(results.errors)}
           = {i \in Calls : calls[i].pc = "rejected"}

\* A sequential run of three payloads has returned with the first and the
\* third send failed and the second delivered.
C24_Witness ==
  /\ ~opts.parallel
  /\ batch.pc = "returned"
  /\ Len(payloads) = 3
  /\ calls[1].pc = "rejected" /\ calls[2].pc = "resolved" /\ calls[3].pc = "rejected"
  /\ Len(results.errors) = 2
  /\ results.errors[1].of = 1 /\ results.errors[2].of = 3

\* C25: within one submitFeedback the steps are ordered: validation, then the
\* record is persisted, then both notification sends are started, the second
\* without waiting for the first to settle, then the call returns only after
\* both sends have settled; no notification is started for a submission whose
\* record was not persisted.
C25_StepOrder ==
  /\ [](/\ sub.pc \in {"connecting", "saving"} =>
            (FeedbackValidatePayload(sub.payload) = <<>> /\ sub.id = 0 /\ sub.dispatches = 0)
        /\ sub.dispatches = 0 => calls = <<>>
        /\ sub.id = 0 => sub.dispatches = 0
        /\ sub.dispatches # 0 =>
             /\ FeedbackValidatePayload(sub.payload) = <<>>
             /\ sub.id \in 1..Len(store)
             /\ store[sub.id].trackingId = sub.trackingId
             /\ sub.dispatches = 2 /\ Len(calls) = 2
             /\ Started(1) /\ Started(2)
             /\ payloads = <<SubmitterConfirmation(sub.payload),
                             RecipientNotification(sub.payload)>>
        /\ (sub.pc \in {"updating", "returned"} /\ sub.dispatches # 0) =>
             (Settled(calls[1]) /\ Settled(calls[2])))
  /\ [][(sub.dispatches = 0 /\ sub'.dispatches # 0) =>
          (sub.pc = "saving" /\ Len(store') = Len(store) + 1 /\ sub'.pc = "notifying")]_vars

\* The record is stored and both notification sends are in flight at once,
\* the recipient's already with the transport while the submitter's template
\* is still rendering.
C25_Witness ==
  /\ sub.pc = "notifying"
  /\ sub.id = Len(store)
  /\ Len(calls) = 2
  /\ calls[1].pc = "rendering"
  /\ calls[2].pc = "transport"

\* C26: sendBatchEmails eventually completes, by returning or by throwing,
\* for every finite payload list and every maxConcurrency a caller can pass,
\* 0 and negative numbers included, provided each send eventually settles.
C26_EventuallyCompletes == <>(batch.pc \in {"returned", "thrown"})

\* Whether the i-th notification send of the running submitFeedback call, the
\* submitter's (1) or the recipient's (2), was made and succeeded.
NotificationSent(i) == sub.dispatches # 0 /\ calls[i].pc = "resolved"

\* C27: in every outcome of submitFeedback, success=false included, the
\* response's emailsSent.submitterNotified (resp. recipientNotified) is true
\* exactly when the submitter (resp. recipient) notification send of that call
\* succeeded; a failed save of the delivery flags after the emails were sent
\* does not make the response report them as not sent.
C27_ResponseFlagsTruthful ==
  sub.pc = "returned" =>
    /\ sub.response.submitterNotified <=> NotificationSent(1)
    /\ sub.response.recipientNotified <=> NotificationSent(2)

\* C28: with continueOnError=true and maxConcurrency >= 1, sendBatchEmails
\* hands every payload of the input to sendEmail exactly once: none is sent
\* twice while the run goes on, and when it returns none has been skipped, in
\* parallel and in sequential mode, whatever the other payloads' outcomes.
C28_EachPayloadOnce ==
  (batch.pc # "idle" /\ opts.continueOnError /\ opts.maxConcurrency >= 1) =>
    /\ Len(calls) = Len(payloads)
    /\ \A i \in Calls : calls[i].starts <= 1 /\ (Started(i) <=> calls[i].starts = 1)
    /\ batch.pc # "thrown"
    /\ batch.pc = "returned" =>
         \A i \in Calls : calls[i].starts = 1 /\ Settled(calls[i])

\* A parallel run of three payloads in chunks of two has returned although
\* the sends of the first chunk both failed: the third payload was sent.
C28_Witness ==
  /\ batch.pc = "returned"
  /\ opts.parallel /\ opts.continueOnError
  /\ opts.maxConcurrency = 2
  /\ Len(payloads) = 3
  /\ calls[1].pc = "rejected" /\ calls[2].pc = "rejected"
  /\ calls[3].pc = "resolved"
  /\ \A i \in Calls : calls[i].starts = 1

\* The status and reviewer fields of a stored record, and its delivery flags.
Review(record) == <<record.status, record.reviewedAt, record.reviewedBy>>
Flags(record) == <<record.submitterNotified, record.recipientNotified>>

\* A step of submitFeedback, resp. of updateFeedbackStatus.
SubmitStep == sub' # sub
UpdateStep == upd' # upd

\* C29: over any interleaving of submitFeedback and updateFeedbackStatus calls
\* on the store: submitFeedback never changes the status or reviewer fields of
\* a record, and every record it creates has status new and no reviewer;
\* updateFeedbackStatus never changes a record's delivery flags and adds no
\* record; and a delivery flag that has become true never returns to false.
C29_FrameOfSubmitAndUpdate ==
  [][/\ Len(store') >= Len(store)
     /\ \A i \in 1..Len(store) :
          /\ SubmitStep => Review(store'[i]) = Review(store[i])
          /\ UpdateStep => Flags(store'[i]) = Flags(store[i])
          /\ store[i].submitterNotified => store'[i].submitterNotified
          /\ store[i].recipientNotified => store'[i].recipientNotified
          /\ store'[i].trackingId = store[i].trackingId
     /\ UpdateStep => Len(store') = Len(store)
     /\ \A i \in (Len(store) + 1)..Len(store') :
          /\ SubmitStep
          /\ Review(store'[i]) = <<"new", NoDate, Undefined>>
          /\ Flags(store'[i]) = <<FALSE, FALSE>>]_vars

\* A status update has reviewed the record of a submitFeedback call whose
\* notifications were still in flight, and the call has then stored its
\* delivery flags: the record is reviewed and notified.
C29_Witness ==
  /\ sub.pc = "returned" /\ sub.flagWrites = 1
  /\ upd.pc = "done" /\ upd.outcome = "updated" /\ upd.id = sub.id
  /\ store[sub.id].status = "reviewed"
  /\ store[sub.id].reviewedBy = reviewer
  /\ store[sub.id].submitterNotified /\ ~store[sub.id].recipientNotified

====
